---------------------------- MODULE Spec2Model ----------------------------
(***************************************************************************)
(* Verification model of the backtesting engine of highvolcryptobot.       *)
(*                                                                         *)
(* Simulators modelled (one loop iteration of backtest_strategy = one      *)
(* action):                                                                *)
(*   "backtesting"         src/src/backtesting/backtesting.py              *)
(*   "reversion_momentum"  src/src/backtesting/reversion_momentum.py       *)
(*   "sma"                 src/src/backtesting/strategies/sma_strategy_20  *)
(*                                                                         *)
(* Arithmetic.  Python floats are modelled as fixed-point numbers with S   *)
(* units per 1.0 (four decimals), every operation rounding down.  Prices,  *)
(* capital, allocations, returns and cost fractions are all in S units.    *)
(* The indicator columns the simulators only compare against thresholds    *)
(* (rsi, bb_position, momentum_30d, volume_ratio, volatility_30d) are kept *)
(* in hundredths.  A missing value (NaN) is the sentinel NaN; comparisons  *)
(* with it are false, as in numpy.                                         *)
(***************************************************************************)
EXTENDS Integers, Sequences, FiniteSets, TLC

VARIABLES
    variant,            \* which program the behaviour is a run of
    df,                 \* the indicator frame: df[token][date index] is a row
    n_dates,            \* len(dates)
    initial_capital,    \* parameter initial_capital
    rebalance_days,     \* parameter rebalance_days
    universe_filter,    \* what the name apply_quality_filters is bound to (sma)
    pc,                 \* "loop", "done" (returned) or "raised" (exception)
    i,                  \* loop index into dates
    capital,
    current_positions,  \* token -> position record (held = FALSE: not a key)
    last_rebalance,     \* last_rebalance / last_rebalance_idx
    portfolio_values,   \* the list the function appends to and returns
    branch,             \* the path the last iteration took through the loop body
    tokens_to_exit,     \* local of the last iteration: tokens_to_exit / exits
    contribution,       \* local of the last iteration: the term each position
                        \* added to the day's blended return (NaN: none)
    history,            \* history variable: the rebalances that rebuilt the
                        \* position set and the tokens that have exited
    input,              \* the arguments of a pure function under check
    output,             \* its results
    store,              \* the database: the committed tables
    session,            \* the tables as the connection's open transaction
                        \* sees them
    trace,              \* the calls made to the collaborators (HTTP requests,
                        \* sleeps, DBService methods), in order
    frame               \* the locals of the ingestion function that is running

\* the state of the ingestion programs, which the backtesting engine never
\* touches
ingestion == <<store, session, trace, frame>>

\* the arguments of a run, and the state of the ingestion programs, which no
\* step of the engine changes
params == <<variant, df, n_dates, initial_capital, rebalance_days,
            universe_filter, input, ingestion>>

vars == <<params, pc, i, capital, current_positions, last_rebalance,
          portfolio_values, branch, tokens_to_exit, contribution, history,
          output>>

----------------------------------------------------------------------------
(* Bounds of the model *)

NDays == 3              \* dates the SMA simulator iterates over
MRDays == 5             \* dates the mean-reversion simulators iterate over
MaxRebalanceDays == 3   \* rebalance_days ranges over 1..MaxRebalanceDays

Tokens == {"T1", "T2"}

TokenOrder(t) == IF t = "T1" THEN 1 ELSE 2

----------------------------------------------------------------------------
(* Fixed-point arithmetic *)

\* four decimal places
S == 100 * 100

NaN == -(S * S)

Fx(n) == n * S

Pow10(k) == IF k = 0 THEN 1 ELSE IF k = 1 THEN 10 ELSE IF k = 2 THEN 100 ELSE 1000

RECURSIVE LongDiv(_, _, _)
\* <<quotient, remainder>> of r * 10^k by b, for 0 <= r < b, digit by digit
LongDiv(r, b, k) ==
    IF k = 0 THEN <<0, r>>
    ELSE LET d    == (r * 10) \div b
             rest == LongDiv((r * 10) % b, b, k - 1)
         IN  <<d * Pow10(k - 1) + rest[1], rest[2]>>

\* <<quotient, remainder>> of a * S by b; the product is formed only where it
\* fits the integers of the checker
FDivPos(a, b) ==
    IF a < 200000 THEN <<(a * S) \div b, (a * S) % b>>
    ELSE LET l == LongDiv(a % b, b, 4)
         IN  <<(a \div b) * S + l[1], l[2]>>

\* a / b for b > 0, rounded down
FDivBy(a, b) ==
    IF a >= 0 THEN FDivPos(a, b)[1]
    ELSE LET p == FDivPos(-a, b)
         IN  IF p[2] = 0 THEN -p[1] ELSE -p[1] - 1

\* a / b on fixed-point (or equally scaled) operands, b # 0, rounded down
FDiv(a, b) == IF b > 0 THEN FDivBy(a, b) ELSE FDivBy(-a, -b)

FMulPos(a, b) ==
    IF a < 40000 /\ b < 40000 /\ b > -40000 THEN (a * b) \div S
    ELSE (a \div S) * b + ((a % S) * b) \div S

\* a * b on fixed-point operands, rounded down for a >= 0
FMul(a, b) == IF a >= 0 THEN FMulPos(a, b) ELSE -FMulPos(-a, b)

Gt(a, b) == a # NaN /\ b # NaN /\ a > b

RECURSIVE SumOver(_, _)
SumOver(f, D) ==
    IF D = {} THEN 0
    ELSE LET t == CHOOSE x \in D : TRUE
         IN  f[t] + SumOver(f, D \ {t})

Max(D) == CHOOSE x \in D : \A y \in D : y <= x

----------------------------------------------------------------------------
(* Cost model *)

\* a bug the tiers could have: the bounds of the tiers are inclusive
slippage_cost_Inclusive(trade_value, pool_liquidity) ==
    IF pool_liquidity <= 0 THEN 0
    ELSE LET fraction == trade_value \div pool_liquidity
         IN  IF fraction <= S \div 1000 THEN S \div 10000
             ELSE IF fraction <= S \div 100 THEN (5 * S) \div 10000
             ELSE IF fraction <= (5 * S) \div 100 THEN (15 * S) \div 10000
             ELSE (3 * S) \div 1000

\* a bug the tiers could have: the two middle tiers are swapped
slippage_cost_Swapped(trade_value, pool_liquidity) ==
    IF pool_liquidity <= 0 THEN 0
    ELSE LET fraction == trade_value \div pool_liquidity
         IN  IF fraction < S \div 1000 THEN S \div 10000
             ELSE IF fraction < S \div 100 THEN (15 * S) \div 10000
             ELSE IF fraction < (5 * S) \div 100 THEN (5 * S) \div 10000
             ELSE (3 * S) \div 1000

\* slippage.py: slippage_cost(trade_value, pool_liquidity); pool_liquidity in
\* whole currency units, trade_value and the result in S units
slippage_cost(trade_value, pool_liquidity) ==
    IF pool_liquidity <= 0 THEN 0
    ELSE LET fraction == trade_value \div pool_liquidity
             slippage == IF fraction < S \div 1000 THEN S \div 10000
                         ELSE IF fraction < S \div 100 THEN (5 * S) \div 10000
                         ELSE IF fraction < (5 * S) \div 100 THEN (15 * S) \div 10000
                         ELSE (3 * S) \div 1000
         IN  IF slippage < (5 * S) \div 1000 THEN slippage ELSE (5 * S) \div 1000

dex_fee == (3 * S) \div 1000
gas_fee_usd == (15 * S) \div 100

\* transaction_costs.py: apply_transaction_costs with its default parameters
apply_transaction_costs(trade_value) == FMul(trade_value, dex_fee) + gas_fee_usd

----------------------------------------------------------------------------
(* Rows of the indicator frame *)

Row(v, sma20, sma200, bb, rsi_, mom, vr, vol) ==
    [present |-> TRUE, value |-> v, sma_20 |-> sma20, sma_50 |-> sma200,
     sma_200 |-> sma200, bb_position |-> bb, rsi |-> rsi_,
     momentum_30d |-> mom, volume_ratio |-> vr, volatility_30d |-> vol]

NoRow ==
    [present |-> FALSE, value |-> NaN, sma_20 |-> NaN, sma_50 |-> NaN,
     sma_200 |-> NaN, bb_position |-> NaN, rsi |-> NaN,
     momentum_30d |-> NaN, volume_ratio |-> NaN, volatility_30d |-> NaN]

\* rows the panels are drawn from, by name: an oversold row in an uptrend at
\* two price levels, an overbought row below its averages, a row whose
\* indicators are all missing, and no row at all for the token on that date
RowNames == {"Buy10", "Buy8", "Over10", "Nan10", "NoRow"}

RowTable ==
    [name \in RowNames |->
        CASE name = "Buy10"  -> Row(Fx(10), Fx(9), Fx(9), 20, 30, 0, 100, 50)
          [] name = "Buy8"   -> Row(Fx(8), Fx(7), Fx(7), 20, 30, 0, 120, 40)
          [] name = "Over10" -> Row(Fx(10), Fx(11), Fx(11), 97, 80, 0, 100, 50)
          [] name = "Nan10"  -> Row(Fx(10), NaN, NaN, NaN, NaN, NaN, NaN, NaN)
          [] OTHER           -> NoRow]

RowNamed(name) == RowTable[name]

RowsOf(t) == IF t = "T1" THEN RowNames
             ELSE {"Buy10", "NoRow"}

Columns == {"value", "sma_50", "sma_200", "bb_position", "rsi",
            "momentum_30d", "volume_ratio", "volatility_30d"}

NoPos == [held |-> FALSE, entry_price |-> 0, allocation |-> 0]

Held(pos) == {t \in Tokens : pos[t].held}

RowAt(t, d) == IF d \in DOMAIN df[t] THEN RowNamed(df[t][d]) ELSE NoRow

NoContribution == [t \in Tokens |-> NaN]

\* what the iteration in progress started from: loop index, capital, index of
\* the last rebalance, positions before the rebalance step and positions pos
\* after it
Snapshot(pos) ==
    [i |-> i, capital |-> capital, last_rebalance |-> last_rebalance,
     current_positions |-> current_positions, pos |-> pos]

NoHistory ==
    [rebuilds |-> <<>>, exits |-> {},
     prev |-> [i |-> -1, capital |-> 0, last_rebalance |-> 0,
               current_positions |-> [t \in Tokens |-> NoPos],
               pos |-> [t \in Tokens |-> NoPos]]]

None == [kind |-> "none"]

\* a database without tables
EmptyStore == [contracts |-> <<>>, prices |-> {}]

\* no ingestion function is running, on an empty database
NoIngestion ==
    /\ store = EmptyStore
    /\ session = EmptyStore
    /\ trace = <<>>
    /\ frame = None

\* the history after an iteration that held pos after its rebalance step
Logged(pos, kind, exits) ==
    [rebuilds |-> IF kind \in {"rebuilt", "emptied"}
                  THEN Append(history.rebuilds, [day |-> i, selected |-> Held(pos)])
                  ELSE history.rebuilds,
     exits |-> history.exits \cup exits,
     prev |-> Snapshot(pos)]

\* a bug the removal could have: every position is closed at the end of the day
RemoveExited_ClosesAll(pos, exits) == [t \in Tokens |-> NoPos]

\* a bug the removal could have: the survivors share the capital anew
RemoveExited_Reallocates(pos, exits) ==
    LET kept == Held(pos) \ exits
    IN  [t \in Tokens |->
            IF t \in kept
            THEN [pos[t] EXCEPT !.allocation = capital \div Cardinality(kept)]
            ELSE NoPos]

\* a bug the removal could have: a position without a row today is dropped
RemoveExited_DropsUnmarked(pos, exits) ==
    [t \in Tokens |->
        IF t \in exits \/ ~RowAt(t, i).present THEN NoPos ELSE pos[t]]

RemoveExited_Keeps(pos, exits) == pos

\* backtesting.py 175-177, sma_strategy_20.py 105-106: the exited positions
\* are deleted
RemoveExited(pos, exits) ==
    [t \in Tokens |-> IF t \in exits THEN NoPos ELSE pos[t]]

----------------------------------------------------------------------------
(* Mean reversion + momentum simulators: backtesting.py and                 *)
(* reversion_momentum.py, which differ in thresholds, in the costs charged  *)
(* and in what an exiting position contributes.                             *)

WarmUp == 200

MRVariants == {"backtesting", "reversion_momentum"}

RsiEntry      == IF variant = "backtesting" THEN 50 ELSE 40
BbEntry       == IF variant = "backtesting" THEN 40 ELSE 30
MomentumFloor == IF variant = "backtesting" THEN -15 ELSE -10
VolumeFloor   == IF variant = "backtesting" THEN 50 ELSE 80
TopK          == IF variant = "backtesting" THEN 10 ELSE 8
StopLoss      == IF variant = "backtesting" THEN -((12 * S) \div 100)
                                            ELSE -((10 * S) \div 100)
RsiExit == 70
BbExit  == 95
PoolLiquidity == 5000000

RECURSIVE LastNonNull(_, _, _)
\* groupby('token_address').agg('last') over the rows with timestamp <= d:
\* the last non-missing value of the column, NaN when there is none
LastNonNull(t, col, d) ==
    IF d \notin DOMAIN df[t] THEN NaN
    ELSE IF RowAt(t, d).present /\ RowAt(t, d)[col] # NaN THEN RowAt(t, d)[col]
    ELSE LastNonNull(t, col, d - 1)

\* tokens with a row at or before d whose every aggregated column is defined
latest_metrics(d) ==
    {t \in Tokens : \A col \in Columns : LastNonNull(t, col, d) # NaN}

candidates(d) ==
    {t \in latest_metrics(d) :
        /\ LastNonNull(t, "value", d) > LastNonNull(t, "sma_200", d)
        /\ \/ LastNonNull(t, "rsi", d) < RsiEntry
           \/ LastNonNull(t, "bb_position", d) < BbEntry
        /\ LastNonNull(t, "momentum_30d", d) > MomentumFloor
        /\ LastNonNull(t, "volume_ratio", d) > VolumeFloor}

\* lines 110-114: the quality score of candidate t among the candidates C
quality_score(t, C, d) ==
    LET volmx == Max({LastNonNull(u, "volatility_30d", d) : u \in C})
        vrmx  == Max({LastNonNull(u, "volume_ratio", d) : u \in C})
    IN    FMul(FDiv(40 - LastNonNull(t, "rsi", d), 40), (5 * S) \div 10)
        + FMul(S - FDiv(LastNonNull(t, "volatility_30d", d), volmx), (3 * S) \div 10)
        + FMul(FDiv(LastNonNull(t, "volume_ratio", d), vrmx), (2 * S) \div 10)

Min(a, b) == IF a < b THEN a ELSE b

\* a bug nlargest could have: the n rows with the smallest scores
nlargest_Smallest(n, score, order) ==
    LET C == DOMAIN score
        Before(u, t) ==
            \/ score[u] < score[t]
            \/ score[u] = score[t] /\ order[u] < order[t]
    IN  {t \in C : Cardinality({u \in C : Before(u, t)}) < n}

\* DataFrame.nlargest(n, 'quality_score'): the n rows with the largest
\* scores; among equal scores the earlier row of the frame is kept
nlargest(n, score, order) ==
    LET C == DOMAIN score
        Before(u, t) ==
            \/ score[u] > score[t]
            \/ score[u] = score[t] /\ order[u] < order[t]
    IN  {t \in C : Cardinality({u \in C : Before(u, t)}) < n}

\* lines 110-118: score the candidates, n_tokens = min(TopK, len(candidates)),
\* candidates.nlargest(n_tokens, 'quality_score')
selected_tokens(d) ==
    LET C == candidates(d)
        score == [t \in C |-> quality_score(t, C, d)]
        n_tokens == Min(TopK, Cardinality(C))
    IN  nlargest(n_tokens, score, [t \in C |-> TokenOrder(t)])

MR_NewPositions_Merges(d) ==
    LET sel == selected_tokens(d)
        allocation_per_token == capital \div Cardinality(sel)
    IN  [t \in Tokens |->
            IF t \in sel
            THEN [held |-> TRUE, entry_price |-> LastNonNull(t, "value", d),
                  allocation |-> allocation_per_token]
            ELSE current_positions[t]]

\* lines 120-129: the position set a rebalance builds
MR_NewPositions(d) ==
    LET sel == selected_tokens(d)
        allocation_per_token == capital \div Cardinality(sel)
    IN  [t \in Tokens |->
            IF t \in sel
            THEN [held |-> TRUE, entry_price |-> LastNonNull(t, "value", d),
                  allocation |-> allocation_per_token]
            ELSE NoPos]

\* line 145: both price rows exist
MR_Priced(t, d) == RowAt(t, d).present /\ RowAt(t, d + 1).present

\* lines 151-162: the position's daily return, costs deducted in backtesting.py
MR_DailyReturn(pos, t, d) ==
    LET current_price == RowAt(t, d).value
        next_price    == RowAt(t, d + 1).value
        raw           == FDiv(next_price - current_price, current_price)
    IN  IF variant = "backtesting"
        THEN raw - slippage_cost(pos[t].allocation, PoolLiquidity)
                 - FDiv(apply_transaction_costs(pos[t].allocation), pos[t].allocation)
        ELSE raw

MR_TotalReturn(pos, t, d) ==
    FDiv(RowAt(t, d + 1).value - pos[t].entry_price, pos[t].entry_price)

\* line 168: the exit rules
MR_Exits(pos, t, d) ==
    \/ MR_TotalReturn(pos, t, d) < StopLoss
    \/ Gt(RowAt(t, d).rsi, RsiExit)
    \/ Gt(RowAt(t, d).bb_position, BbExit)

\* lines 168-172 (backtesting.py), 243-259 (reversion_momentum.py): the term the
\* position adds to daily_portfolio_return
MR_Term(pos, t, d) ==
    LET n == Cardinality(Held(pos))
    IN  IF variant = "reversion_momentum" /\ MR_Exits(pos, t, d)
        THEN MR_TotalReturn(pos, t, d) \div n
        ELSE MR_DailyReturn(pos, t, d) \div n

\* lines 133-186: mark to market, exits, compounding and the appended entry,
\* given the positions pos held after the rebalance step
MR_DailyUpdate(pos, kind) ==
    LET marks == i < n_dates - 1 /\ Held(pos) # {}
        priced == IF marks THEN {t \in Held(pos) : MR_Priced(t, i)} ELSE {}
        terms == [t \in Tokens |-> IF t \in priced THEN MR_Term(pos, t, i) ELSE NaN]
        exits == {t \in priced : MR_Exits(pos, t, i)}
        kept == RemoveExited(pos, exits)
        newcap == IF marks THEN FMul(capital, S + SumOver(terms, priced)) ELSE capital
    IN  /\ current_positions' = kept
        /\ capital' = newcap
        /\ tokens_to_exit' = exits
        /\ contribution' = terms
        /\ portfolio_values' = Append(portfolio_values,
               [date |-> i, portfolio_value |-> newcap,
                n_tokens |-> Cardinality(Held(kept))])
        /\ branch' = kind
        /\ history' = Logged(pos, kind, exits)
        /\ i' = i + 1

MR_Looping == variant \in MRVariants /\ pc = "loop" /\ i < n_dates

should_rebalance_Strict == (i - last_rebalance) > rebalance_days

\* line 63 (backtesting.py), line 38 (sma_strategy_20.py)
should_rebalance == (i - last_rebalance) >= rebalance_days

\* an iteration that does not rebalance
MR_Hold ==
    /\ MR_Looping
    /\ ~should_rebalance
    /\ MR_DailyUpdate(current_positions, "hold")
    /\ UNCHANGED <<params, pc, last_rebalance, output>>

\* lines 84-85: no token has complete metrics: continue
MR_NoMetrics ==
    /\ MR_Looping
    /\ should_rebalance
    /\ latest_metrics(i) = {}
    /\ i' = i + 1
    /\ branch' = "no_metrics"
    /\ tokens_to_exit' = {}
    /\ contribution' = NoContribution
    /\ history' = Logged(current_positions, branch', {})
    /\ UNCHANGED <<params, pc, capital, current_positions, last_rebalance,
                   portfolio_values, output>>

\* lines 105-107: no candidate passes the entry conditions: continue
MR_NoCandidates ==
    /\ MR_Looping
    /\ should_rebalance
    /\ latest_metrics(i) # {}
    /\ candidates(i) = {}
    /\ i' = i + 1
    /\ branch' = "no_candidates"
    /\ tokens_to_exit' = {}
    /\ contribution' = NoContribution
    /\ history' = Logged(current_positions, branch', {})
    /\ UNCHANGED <<params, pc, capital, current_positions, last_rebalance,
                   portfolio_values, output>>

\* lines 109-131 and the daily update after them
MR_Rebalance ==
    /\ MR_Looping
    /\ should_rebalance
    /\ candidates(i) # {}
    /\ last_rebalance' = i
    /\ \E pos \in {MR_NewPositions(i)} : MR_DailyUpdate(pos, "rebuilt")
    /\ UNCHANGED <<params, pc, output>>

\* lines 188-189: the loop is exhausted and the series is returned
MR_Return ==
    /\ variant \in MRVariants
    /\ pc = "loop"
    /\ i >= n_dates
    /\ pc' = "done"
    /\ UNCHANGED <<params, i, capital, current_positions, last_rebalance,
                   portfolio_values, branch, tokens_to_exit, contribution,
                   history, output>>

InitialCapitals == {Fx(1000)}

\* the panels of the mean-reversion simulators, over the dates from the
\* warm-up index on: token T1 has a row on every date; token T2 has the same
\* row on every date, or is not in the frame, or (T1 qualifying throughout)
\* lacks the row of one date
MRPanels ==
    LET Days == WarmUp .. WarmUp + MRDays - 1
        Dense == {[t \in Tokens |-> [d \in Days |-> IF t = "T1" THEN r1[d] ELSE r2]] :
                     r1 \in [Days -> RowNames \ {"NoRow"}], r2 \in RowsOf("T2")}
        Gapped == {[t \in Tokens |->
                       [d \in Days |-> IF t = "T2" /\ d = g THEN "NoRow" ELSE "Buy10"]] :
                      g \in Days}
    IN  Dense \cup Gapped

\* lines 45-57: the state when the loop is entered.  The dates before the
\* warm-up index carry no row with a defined indicator.
InitMR ==
    /\ variant \in MRVariants
    /\ df \in MRPanels
    /\ n_dates = WarmUp + MRDays
    /\ initial_capital \in InitialCapitals
    /\ rebalance_days \in 1 .. MaxRebalanceDays
    /\ universe_filter = "none"
    /\ pc = "loop"
    /\ i = WarmUp
    /\ capital = initial_capital
    /\ current_positions = [t \in Tokens |-> NoPos]
    /\ last_rebalance = WarmUp
    /\ portfolio_values = <<>>
    /\ branch = "start"
    /\ tokens_to_exit = {}
    /\ contribution = NoContribution
    /\ history = NoHistory
    /\ input = None
    /\ output = None
    /\ NoIngestion

NextMR == MR_Hold \/ MR_NoMetrics \/ MR_NoCandidates \/ MR_Rebalance \/ MR_Return

SpecMR == InitMR /\ [][NextMR]_vars

----------------------------------------------------------------------------
(* SMA simulator: strategies/sma_strategy_20.py                             *)
(*                                                                          *)
(* Line 39 calls apply_quality_filters(df, current_date) and uses the       *)
(* result as the collection of eligible token addresses.  The function of   *)
(* that name under src/ (data_cleaner.py:28) takes the frame alone, so with *)
(* it the call raises TypeError; the two-parameter point-in-time filter the *)
(* call is written against is not under src/ and is modelled from the       *)
(* specification, section 4.2.  universe_filter says which of the two the   *)
(* run is bound to.                                                         *)

MinObservations == 1

\* section 4.2, first rule: the tokens with enough observations at or before
\* the cutoff; the other rules read columns the simulator never consults
UniverseFilter(cutoff) ==
    {t \in Tokens :
        Cardinality({d \in DOMAIN df[t] : d <= cutoff /\ RowAt(t, d).present})
            >= MinObservations}

SmaStopLoss == -((8 * S) \div 100)
SmaPoolLiquidity == 100000000

\* lines 41-46: rows of the current date of eligible tokens, value and SMA
\* defined, price above the SMA
SMA_Selected(d) ==
    {t \in UniverseFilter(d) :
        /\ RowAt(t, d).present
        /\ RowAt(t, d).value # NaN
        /\ RowAt(t, d).sma_20 # NaN
        /\ RowAt(t, d).value > RowAt(t, d).sma_20}

\* lines 48-60: the position set the rebalance builds
SMA_NewPositions(d) ==
    LET selected   == SMA_Selected(d)
        allocation == IF selected = {} THEN 0 ELSE capital \div Cardinality(selected)
        tx_cost    == apply_transaction_costs(allocation)
    IN  [t \in Tokens |->
            IF t \in selected
            THEN [held |-> TRUE,
                  entry_price |-> FMul(RowAt(t, d).value, S + FDiv(tx_cost, allocation)),
                  allocation |-> allocation]
            ELSE NoPos]

\* lines 71-85: the position is marked only with a row today and yesterday
SMA_Priced(t, d) == d # 0 /\ RowAt(t, d).present /\ RowAt(t, d - 1).present

SMA_Pnl(pos, t, d) == FDiv(RowAt(t, d).value - pos[t].entry_price, pos[t].entry_price)

\* line 94: the stop-loss
SMA_Exits(pos, t, d) == SMA_Pnl(pos, t, d) < SmaStopLoss

\* lines 95-97
SMA_Penalty(pos, t) ==
    slippage_cost(pos[t].allocation, SmaPoolLiquidity)
        + FDiv(apply_transaction_costs(pos[t].allocation), pos[t].allocation)

\* lines 87-103: what the position adds to daily_return
SMA_Term(pos, t, d) ==
    LET today_price     == RowAt(t, d).value
        yesterday_price == RowAt(t, d - 1).value
        weight          == FDiv(pos[t].allocation, capital)
        gain == FMul(weight, FDiv(today_price - yesterday_price, yesterday_price))
    IN  IF SMA_Exits(pos, t, d) THEN gain - SMA_Penalty(pos, t) ELSE gain

\* lines 64-116: daily update, given the positions pos held after the
\* rebalance step
SMA_DailyUpdate(pos, kind) ==
    LET priced == {t \in Held(pos) : SMA_Priced(t, i)}
        terms  == [t \in Tokens |-> IF t \in priced THEN SMA_Term(pos, t, i) ELSE NaN]
        exits  == {t \in priced : SMA_Exits(pos, t, i)}
        kept   == RemoveExited(pos, exits)
        newcap == FMul(capital, S + SumOver(terms, priced))
    IN  /\ current_positions' = kept
        /\ capital' = newcap
        /\ tokens_to_exit' = exits
        /\ contribution' = terms
        /\ portfolio_values' = Append(portfolio_values,
               [date |-> i, portfolio_value |-> newcap,
                n_tokens |-> Cardinality(Held(kept))])
        /\ branch' = kind
        /\ history' = Logged(pos, kind, exits)
        /\ i' = i + 1

SMA_Looping == variant = "sma" /\ pc = "loop" /\ i < n_dates

\* line 39 with data_cleaner.apply_quality_filters(df): TypeError
SMA_FilterRaises ==
    /\ SMA_Looping
    /\ should_rebalance
    /\ universe_filter = "data_cleaner"
    /\ pc' = "raised"
    /\ branch' = "raised"
    /\ history' = Logged(current_positions, branch', {})
    /\ UNCHANGED <<params, i, capital, current_positions, last_rebalance,
                   portfolio_values, tokens_to_exit, contribution, output>>

\* lines 38-62 and the daily update after them
SMA_Rebalance ==
    /\ SMA_Looping
    /\ should_rebalance
    /\ universe_filter = "cutoff"
    /\ last_rebalance' = i
    /\ \E pos \in {SMA_NewPositions(i)} :
           SMA_DailyUpdate(pos, IF Held(pos) = {} THEN "emptied" ELSE "rebuilt")
    /\ UNCHANGED <<params, pc, output>>

\* an iteration that does not rebalance
SMA_Hold ==
    /\ SMA_Looping
    /\ ~should_rebalance
    /\ SMA_DailyUpdate(current_positions, "hold")
    /\ UNCHANGED <<params, pc, last_rebalance, output>>

\* line 118
SMA_Return ==
    /\ variant = "sma"
    /\ pc = "loop"
    /\ i >= n_dates
    /\ pc' = "done"
    /\ UNCHANGED <<params, i, capital, current_positions, last_rebalance,
                   portfolio_values, branch, tokens_to_exit, contribution,
                   history, output>>

\* the panels of the SMA simulator, over the dates 0 .. NDays - 1; a date
\* exists in dates only if some row carries it
Panels ==
    LET Days == 0 .. NDays - 1
        DayRows == {r \in [Tokens -> RowNames] :
                       /\ \A t \in Tokens : r[t] \in RowsOf(t)
                       /\ \E t \in Tokens : r[t] # "NoRow"}
    IN  {[t \in Tokens |-> [d \in Days |-> byday[d][t]]] : byday \in [Days -> DayRows]}

\* lines 26-31
InitSMA ==
    /\ variant = "sma"
    /\ df \in Panels
    /\ n_dates = NDays
    /\ initial_capital \in InitialCapitals
    /\ rebalance_days \in 1 .. MaxRebalanceDays
    /\ universe_filter \in {"data_cleaner", "cutoff"}
    /\ pc = "loop"
    /\ i = 0
    /\ capital = initial_capital
    /\ current_positions = [t \in Tokens |-> NoPos]
    /\ last_rebalance = -rebalance_days
    /\ portfolio_values = <<>>
    /\ branch = "start"
    /\ tokens_to_exit = {}
    /\ contribution = NoContribution
    /\ history = NoHistory
    /\ input = None
    /\ output = None
    /\ NoIngestion

NextSMA == SMA_FilterRaises \/ SMA_Rebalance \/ SMA_Hold \/ SMA_Return

SpecSMA == InitSMA /\ [][NextSMA]_vars

\* every simulator
Init == InitMR \/ InitSMA

Next == NextMR \/ NextSMA

Spec == Init /\ [][Next]_vars

----------------------------------------------------------------------------
(* Properties of the simulators                                             *)

\* the first index the loop visits: range(200, len(dates)), enumerate(dates)
FirstDay == IF variant = "sma" THEN 0 ELSE WarmUp

\* the days whose loop body has been entered
Iterated == (i - FirstDay) + (IF pc = "raised" THEN 1 ELSE 0)

\* the last iteration entered the rebalance sub-step
EnteredRebalance ==
    branch \in {"no_metrics", "no_candidates", "rebuilt", "emptied", "raised"}

\* the last iteration ran the daily update and appended an entry
Emitted == branch \in {"hold", "rebuilt", "emptied"}

prev == history.prev

\* C3: the series holds exactly one entry per day iterated, in strictly
\* increasing date order, rebalance days without complete metrics or without
\* a candidate included.
C3_OneEntryPerDay ==
    /\ Len(portfolio_values) = Iterated
    /\ \A k \in 1 .. Len(portfolio_values) - 1 :
           portfolio_values[k].date < portfolio_values[k + 1].date

ExitTriggered(pos, t, d) ==
    IF variant = "sma"
    THEN SMA_Priced(t, d) /\ SMA_Exits(pos, t, d)
    ELSE d < n_dates - 1 /\ MR_Priced(t, d) /\ MR_Exits(pos, t, d)

C32_ExitContributesDailyReturn ==
    variant \in MRVariants /\ Emitted =>
        \A t \in tokens_to_exit :
            contribution[t]
                = MR_DailyReturn(prev.pos, t, prev.i) \div Cardinality(Held(prev.pos))


C8_FirstDayRebalances == Iterated = 1 => EnteredRebalance

\* C9: an iteration enters the rebalance sub-step exactly when
\* i - last_rebalance >= rebalance_days; a rebalance that rebuilds the position
\* set sets last_rebalance to i; two consecutive rebuilding rebalances are at
\* least rebalance_days iterations apart.
C9_RebalanceCadence ==
    /\ Iterated >= 1 =>
           (EnteredRebalance <=> (prev.i - prev.last_rebalance) >= rebalance_days)
    /\ branch \in {"rebuilt", "emptied"} => last_rebalance = prev.i
    /\ \A k \in 1 .. Len(history.rebuilds) - 1 :
           history.rebuilds[k + 1].day - history.rebuilds[k].day >= rebalance_days

C9_Witness ==
    /\ rebalance_days >= 2
    /\ Len(history.rebuilds) >= 2
    /\ history.rebuilds[2].selected # {}

\* the assets the rebalance of day d selects
Selected(d) == IF variant = "sma" THEN SMA_Selected(d) ELSE selected_tokens(d)

\* C10 as stated: a rebalance that selects at least one asset holds exactly
\* the selected assets afterwards, each with allocation capital / K, K the
\* configured position count.
C10_AllocationIsCapitalOverK ==
    variant \in MRVariants /\ branch = "rebuilt" =>
        /\ Held(prev.pos) = Selected(prev.i)
        /\ \A t \in Held(prev.pos) : prev.pos[t].allocation = prev.capital \div TopK

\* C10 amended: a rebalance that selects at least one asset holds exactly the
\* selected assets afterwards, each with allocation capital / n, n the number
\* of assets selected.
C10_AllocationIsCapitalOverSelected ==
    branch = "rebuilt" =>
        LET selected == Selected(prev.i)
        IN  /\ Held(current_positions) \cup tokens_to_exit = selected
            /\ selected # {}
            /\ \A t \in Held(current_positions) :
                   current_positions[t].allocation
                       = prev.capital \div Cardinality(selected)

\* a rebalance that drops a held asset and gives the one asset it selects the
\* whole capital
C10_Witness ==
    /\ variant \in MRVariants
    /\ branch = "rebuilt"
    /\ Held(prev.current_positions) = {"T1", "T2"}
    /\ Held(prev.pos) = {"T2"}
    /\ Held(current_positions) = {"T2"}
    /\ current_positions["T2"].allocation = prev.capital

\* the last position set a rebalance built was the one asset t, bought on the
\* first rebalance, selected again by every later one, never exited and priced
\* on every day since; every day since has its entry
HeldThroughout(t) ==
    LET entered == history.rebuilds[1].day
    IN  /\ \A k \in 1 .. Len(history.rebuilds) : history.rebuilds[k].selected = {t}
        /\ history.exits = {}
        /\ Held(current_positions) = {t}
        /\ \A d \in entered .. n_dates - 1 : RowAt(t, d).present
        /\ Cardinality({k \in 1 .. Len(portfolio_values) :
                            portfolio_values[k].date >= entered})
               = n_dates - entered

StopLossExit(t) ==
    /\ t \in tokens_to_exit
    /\ IF variant = "sma" THEN SMA_Exits(prev.pos, t, prev.i)
       ELSE MR_TotalReturn(prev.pos, t, prev.i) < StopLoss

\* what position t adds to the day's return when no cost is deducted
CostFreeTerm(t) ==
    LET n == Cardinality(Held(prev.pos))
    IN  IF variant = "sma"
        THEN FMul(FDiv(prev.pos[t].allocation, prev.capital),
                  FDiv(RowAt(t, prev.i).value - RowAt(t, prev.i - 1).value,
                       RowAt(t, prev.i - 1).value))
        ELSE IF variant = "reversion_momentum" /\ t \in tokens_to_exit
        THEN MR_TotalReturn(prev.pos, t, prev.i) \div n
        ELSE FDiv(RowAt(t, prev.i + 1).value - RowAt(t, prev.i).value,
                  RowAt(t, prev.i).value) \div n

\* C7: on a day that is neither the position's entry day nor the day of its
\* stop-loss exit, no slippage and no transaction cost is deducted from what
\* the position adds to the day's return: not on an ordinary holding day and
\* not on an overbought or upper-band exit.
C7_CostsOnlyOnStopLoss ==
    \A t \in Tokens :
        branch = "hold" /\ contribution[t] # NaN /\ ~StopLossExit(t)
            => contribution[t] = CostFreeTerm(t)

\* the price the rebalance of day d reads for asset t
EntryQuote(t, d) ==
    IF variant = "sma" THEN RowAt(t, d).value ELSE LastNonNull(t, "value", d)

\* C11: every position a rebalance creates records the price raised by the
\* entry transaction cost as a fraction of the allocation:
\* entry_price = price * (1 + transaction_cost(allocation) / allocation).
C11_EntryPriceIncludesCost ==
    branch = "rebuilt" =>
        \A t \in Held(prev.pos) :
            LET allocation == prev.pos[t].allocation
            IN  prev.pos[t].entry_price
                    = FMul(EntryQuote(t, prev.i),
                           S + FDiv(apply_transaction_costs(allocation), allocation))

\* position t after the daily update is the position `before` it, or `before`
\* was held, left by an exit and t is not held
SameOrExited(t, before) ==
    \/ current_positions[t] = before
    \/ /\ before.held
       /\ t \in tokens_to_exit
       /\ current_positions[t] = NoPos

\* C13: an iteration that does not rebuild the position set adds no position
\* and changes no entry price or allocation: every position is the one held
\* before, or has left by an exit; after a rebuilding rebalance the positions
\* are the ones the rebalance created, but for those that left by an exit.
C13_PositionsChangeOnlyAtRebalance ==
    /\ branch \in {"hold", "no_metrics", "no_candidates"} =>
           \A t \in Tokens : SameOrExited(t, prev.current_positions[t])
    /\ branch \in {"rebuilt", "emptied"} =>
           \A t \in Tokens : SameOrExited(t, prev.pos[t])

C13_Witness ==
    /\ branch = "hold"
    /\ capital # prev.capital
    /\ \E t \in Tokens :
           /\ current_positions[t].held
           /\ current_positions[t] = prev.current_positions[t]

\* position t, held into the last daily update, lacked the price row of the
\* day or of the day paired with it (the next day in the mean-reversion
\* simulators, the previous day in the SMA simulator)
Unpriced(t) ==
    /\ prev.pos[t].held
    /\ IF variant = "sma"
       THEN \/ prev.i = 0
            \/ ~RowAt(t, prev.i).present
            \/ ~RowAt(t, prev.i - 1).present
       ELSE \/ ~RowAt(t, prev.i).present
            \/ ~RowAt(t, prev.i + 1).present

\* C14: a held asset without the day's price row, or without the row of the
\* paired day, adds nothing to the day's return (capital is compounded by the
\* terms of the other positions alone), is not exited and keeps its entry
\* price and allocation, and the day's entry is emitted.
C14_MissingRowSkipsPosition ==
    Emitted =>
        /\ \A t \in Tokens :
               Unpriced(t) =>
                   /\ contribution[t] = NaN
                   /\ t \notin tokens_to_exit
                   /\ current_positions[t] = prev.pos[t]
        /\ capital = FMul(prev.capital,
                          S + SumOver(contribution,
                                      {t \in Tokens : contribution[t] # NaN}))
        /\ portfolio_values[Len(portfolio_values)].date = prev.i

C14_Witness ==
    /\ variant \in MRVariants
    /\ branch = "hold"
    /\ \E t, u \in Tokens :
           /\ Unpriced(t)
           /\ RowAt(t, prev.i).present
           /\ current_positions[t].held
           /\ contribution[u] # NaN

----------------------------------------------------------------------------
(* The open-position count of the entries                                   *)

\* the rebalances so far that selected at least one asset
Selecting == {k \in 1 .. Len(history.rebuilds) : history.rebuilds[k].selected # {}}

\* the day of the first of them (past the last date when there is none)
FirstSelectingDay ==
    IF Selecting = {} THEN n_dates
    ELSE history.rebuilds[CHOOSE k \in Selecting : \A j \in Selecting : k <= j].day

\* every rebalance from the first selecting one on took exactly one asset (the
\* simulators have no parameter K: one asset is taken when one qualifies), and
\* no position has exited
OneAssetHeld ==
    /\ \A k \in 1 .. Len(history.rebuilds) :
           history.rebuilds[k].day >= FirstSelectingDay
               => Cardinality(history.rebuilds[k].selected) = 1
    /\ history.exits = {}

\* C21: every entry emitted before the first rebalance that selects an asset
\* has portfolio_value = initial_capital and n_tokens = 0; when every rebalance
\* from that one on takes one asset and nothing exits, n_tokens is 1 on every
\* entry from that rebalance on.
C21_CountBeforeAndAfterFirstSelection ==
    \A k \in 1 .. Len(portfolio_values) :
        LET entry == portfolio_values[k]
        IN  /\ entry.date < FirstSelectingDay
                => entry.portfolio_value = initial_capital /\ entry.n_tokens = 0
            /\ entry.date >= FirstSelectingDay /\ OneAssetHeld
                => entry.n_tokens = 1

C21_Witness ==
    /\ pc = "done"
    /\ OneAssetHeld
    /\ Len(history.rebuilds) >= 2
    /\ \E j, k \in 1 .. Len(portfolio_values) :
           /\ portfolio_values[j].date < FirstSelectingDay
           /\ portfolio_values[k].date > FirstSelectingDay
           /\ portfolio_values[k].portfolio_value # initial_capital

----------------------------------------------------------------------------
(* Whole runs, from the call of backtest_strategy: the statements before    *)
(* the loop, on frames that may be empty and with the arguments as given.   *)

CallDays == 2

\* rebalance_days as the caller may give it
RebalanceDaysGiven == {-1, 0, 2}

\* sma_period as the caller may give it (sma_strategy_20.py only)
SmaPeriods == {20, 100}

\* the windows calculate_indicators adds an SMA column for
FrameWindows == (5 .. 30) \cup {50, 200}

FirstIndex(v) == IF v = "sma" THEN 0 ELSE WarmUp

\* the frames given: no row at all, or on each of CallDays dates (counted
\* from the first index the loop visits) the same row per token
CallPanels(v) ==
    LET Days == FirstIndex(v) .. FirstIndex(v) + CallDays - 1
    IN  {[t \in Tokens |-> <<>>]}
        \cup {[t \in Tokens |-> [d \in Days |-> IF t = "T1" THEN r1 ELSE r2]] :
                 r1 \in RowNames \ {"NoRow"}, r2 \in RowsOf("T2")}

\* len(dates)
DatesOf(v, panel) ==
    IF \A t \in Tokens : DOMAIN panel[t] = {} THEN 0 ELSE FirstIndex(v) + CallDays

Raised(error) == [kind |-> "raised", error |-> error]

\* backtesting.py lines 45-57 (reversion_momentum.py 129-141): the banner
\* prints dates[0] and dates[-1], which an empty list does not have
MR_Enter ==
    /\ variant \in MRVariants
    /\ pc = "call"
    /\ IF n_dates = 0
       THEN /\ pc' = "raised"
            /\ output' = Raised("IndexError")
            /\ UNCHANGED <<i, capital, last_rebalance>>
       ELSE /\ pc' = "loop"
            /\ i' = WarmUp
            /\ capital' = initial_capital
            /\ last_rebalance' = WarmUp
            /\ UNCHANGED output
    /\ UNCHANGED <<params, current_positions, portfolio_values, branch,
                   tokens_to_exit, contribution, history>>

\* sma_strategy_20.py lines 22-31: the SMA column must be in the frame
SMA_Enter ==
    /\ variant = "sma"
    /\ pc = "call"
    /\ IF input.sma_period \notin FrameWindows
       THEN /\ pc' = "raised"
            /\ output' = Raised("ValueError")
            /\ UNCHANGED <<i, capital, last_rebalance>>
       ELSE /\ pc' = "loop"
            /\ i' = 0
            /\ capital' = initial_capital
            /\ last_rebalance' = -rebalance_days
            /\ UNCHANGED output
    /\ UNCHANGED <<params, current_positions, portfolio_values, branch,
                   tokens_to_exit, contribution, history>>

InitRun ==
    /\ variant \in MRVariants \cup {"sma"}
    /\ df \in CallPanels(variant)
    /\ n_dates = DatesOf(variant, df)
    /\ initial_capital \in InitialCapitals
    /\ rebalance_days \in RebalanceDaysGiven
    /\ IF variant = "sma"
       THEN /\ universe_filter \in {"data_cleaner", "cutoff"}
            /\ input \in [kind : {"config"}, sma_period : SmaPeriods]
       ELSE /\ universe_filter = "none"
            /\ input = None
    /\ pc = "call"
    /\ i = 0
    /\ capital = 0
    /\ current_positions = [t \in Tokens |-> NoPos]
    /\ last_rebalance = 0
    /\ portfolio_values = <<>>
    /\ branch = "start"
    /\ tokens_to_exit = {}
    /\ contribution = NoContribution
    /\ history = NoHistory
    /\ output = None
    /\ NoIngestion

NextRun == MR_Enter \/ SMA_Enter \/ Next

SpecRun == InitRun /\ [][NextRun]_vars

\* the arguments are ones the specification accepts
ValidConfig ==
    /\ rebalance_days >= 1
    /\ variant = "sma" => input.sma_period \in FrameWindows

\* C16: on a non-empty panel with a valid configuration a run never enters an
\* error state, the rebalance step's call into the universe filter included,
\* and ends with every date processed.
C16_RunsCompleteWithoutError ==
    n_dates > 0 /\ ValidConfig =>
        /\ pc # "raised"
        /\ pc = "done" => i = n_dates

\* C17: on an empty panel (no dates) a run with a valid configuration does
\* not raise and returns the empty series, in every variant.
C17_EmptyPanelGivesEmptySeries ==
    n_dates = 0 /\ ValidConfig =>
        /\ pc # "raised"
        /\ pc = "done" => portfolio_values = <<>>

\* C19: a run with an invalid configuration is rejected before the first day
\* is processed: it never enters the loop.
C19_InvalidConfigRejected ==
    ~ValidConfig => pc \in {"call", "raised"} /\ portfolio_values = <<>>

----------------------------------------------------------------------------
(* Two runs of a mean-reversion simulator on frames that differ in one row: *)
(* the run on the frame as given, and then the run on the frame with the    *)
(* row of one token on one date changed.  frame keeps the series the first  *)
(* run returned.                                                            *)

ReplayDays == 3

\* the frames given: T1 has a row on every date, T2 the same row on every
\* date or none
ReplayPanels ==
    LET Days == WarmUp .. WarmUp + ReplayDays - 1
    IN  {[t \in Tokens |-> [d \in Days |-> IF t = "T1" THEN r1[d] ELSE r2]] :
            r1 \in [Days -> RowNames \ {"NoRow"}], r2 \in RowsOf("T2")}

\* the row changed: another row for T1, or the row of T2 added or removed
RowChanges ==
    [kind : {"change"}, token : {"T1"},
     date : WarmUp .. WarmUp + ReplayDays - 1, row : RowNames \ {"NoRow"}]
        \cup [kind : {"change"}, token : {"T2"},
              date : WarmUp .. WarmUp + ReplayDays - 1, row : RowsOf("T2")]

\* backtesting.py lines 45-57 (reversion_momentum.py 129-141) on the first
\* frame
InitReplay ==
    /\ variant \in MRVariants
    /\ df \in ReplayPanels
    /\ n_dates = WarmUp + ReplayDays
    /\ initial_capital \in InitialCapitals
    /\ rebalance_days = 1
    /\ universe_filter = "none"
    /\ input \in {c \in RowChanges : df[c.token][c.date] # c.row}
    /\ pc = "loop"
    /\ i = WarmUp
    /\ capital = initial_capital
    /\ current_positions = [t \in Tokens |-> NoPos]
    /\ last_rebalance = WarmUp
    /\ portfolio_values = <<>>
    /\ branch = "start"
    /\ tokens_to_exit = {}
    /\ contribution = NoContribution
    /\ history = NoHistory
    /\ output = None
    /\ NoIngestion

\* backtest_strategy is called again, on the changed frame: lines 45-57
Replay ==
    /\ variant \in MRVariants
    /\ pc = "done"
    /\ input.kind = "change"
    /\ frame = None
    /\ frame' = [kind |-> "first_run", portfolio_values |-> portfolio_values]
    /\ df' = [df EXCEPT ![input.token][input.date] = input.row]
    /\ pc' = "loop"
    /\ i' = WarmUp
    /\ capital' = initial_capital
    /\ current_positions' = [t \in Tokens |-> NoPos]
    /\ last_rebalance' = WarmUp
    /\ portfolio_values' = <<>>
    /\ branch' = "start"
    /\ tokens_to_exit' = {}
    /\ contribution' = NoContribution
    /\ history' = NoHistory
    /\ UNCHANGED <<variant, n_dates, initial_capital, rebalance_days,
                   universe_filter, input, output, store, session, trace>>

NextReplay == NextMR \/ Replay

SpecReplay == InitReplay /\ [][NextReplay]_vars

\* the entries of a series dated before d
EntriesBefore(series, d) ==
    {series[k] : k \in {j \in DOMAIN series : series[j].date < d}}

\* C37: the entry emitted for a date D (portfolio value and position count,
\* which the exits of D decide) is the same in two runs whose frames differ
\* only in a row dated after D.
C37_EntryIgnoresLaterRows ==
    frame.kind = "first_run" =>
        /\ EntriesBefore(portfolio_values, input.date)
               \subseteq EntriesBefore(frame.portfolio_values, input.date)
        /\ pc = "done" =>
               EntriesBefore(frame.portfolio_values, input.date)
                   \subseteq EntriesBefore(portfolio_values, input.date)


\* the capital a run may start with: ten cents, a dollar, a thousand dollars
CapitalsGiven == {S \div 10, Fx(1), Fx(1000)}

\* backtesting.py lines 45-57 (reversion_momentum.py 129-141), every row of
\* the frame having a positive price
InitCapital ==
    /\ variant \in MRVariants
    /\ df \in ReplayPanels
    /\ n_dates = WarmUp + ReplayDays
    /\ initial_capital \in CapitalsGiven
    /\ rebalance_days = 1
    /\ universe_filter = "none"
    /\ pc = "loop"
    /\ i = WarmUp
    /\ capital = initial_capital
    /\ current_positions = [t \in Tokens |-> NoPos]
    /\ last_rebalance = WarmUp
    /\ portfolio_values = <<>>
    /\ branch = "start"
    /\ tokens_to_exit = {}
    /\ contribution = NoContribution
    /\ history = NoHistory
    /\ input = None
    /\ output = None
    /\ NoIngestion

SpecCapital == InitCapital /\ [][NextMR]_vars

\* C38: with a positive initial capital and positive prices the portfolio
\* value is positive in every state and in every entry of the series: no
\* day's blended return, costs deducted, is -100% or less.
C38_CapitalStaysPositive ==
    /\ capital > 0
    /\ \A k \in DOMAIN portfolio_values : portfolio_values[k].portfolio_value > 0

----------------------------------------------------------------------------
(* The universe filter: data_cleaner.apply_quality_filters(df)              *)
(*                                                                          *)
(* A token's observations are its rows dated at or before a cutoff date D,  *)
(* given run-length encoded (rows observations, all with the same price and *)
(* market capitalisation), followed by the observations dated after D, one  *)
(* by one.                                                                  *)

\* the simulator's variables, which the pure functions leave alone
Idle ==
    /\ df = [t \in Tokens |-> <<>>]
    /\ n_dates = 0
    /\ initial_capital = 0
    /\ rebalance_days = 0
    /\ universe_filter = "none"
    /\ i = 0
    /\ capital = 0
    /\ current_positions = [t \in Tokens |-> NoPos]
    /\ last_rebalance = 0
    /\ portfolio_values = <<>>
    /\ branch = "start"
    /\ tokens_to_exit = {}
    /\ contribution = NoContribution
    /\ history = NoHistory

IdleVars == <<df, n_dates, initial_capital, rebalance_days, universe_filter, i,
              capital, current_positions, last_rebalance, portfolio_values,
              branch, tokens_to_exit, contribution, history>>

\* how many rows short of the minimum a history may start, and how many
\* observations after the cutoff a history may receive
RowsShort == 1
MaxLater == 2

MinAvgMcap == 1000000
MinRows == 730
MaxChange == 3

McapLevels == {900000, 1100000}
PriceLevels == {Fx(1), Fx(5)}

Observations == [value : PriceLevels, market_cap : McapLevels]

\* len(token_data)
RowCount(h) == h.rows + Len(h.later)

RECURSIVE McapSum(_)
McapSum(later) ==
    IF later = <<>> THEN 0 ELSE later[1].market_cap + McapSum(Tail(later))

\* token_data['market_cap'].mean() < 1_000_000, compared as sums
LowMarketCap(h) ==
    h.rows * h.market_cap + McapSum(h.later) < MinAvgMcap * RowCount(h)

\* the prices in timestamp order, a run of equal prices given once when it
\* has at least two rows (the changes inside it are zero)
PricePath(h) ==
    (IF h.rows >= 2 THEN <<h.value, h.value>>
     ELSE IF h.rows = 1 THEN <<h.value>> ELSE <<>>)
        \o [k \in 1 .. Len(h.later) |-> h.later[k].value]

\* token_data['value'].pct_change().abs().max() > 3.0
ExtremeChange(h) ==
    LET path == PricePath(h)
    IN  \E k \in 2 .. Len(path) :
            LET d == path[k] - path[k - 1]
            IN  (IF d < 0 THEN -d ELSE d) > MaxChange * path[k - 1]

\* lines 32-54: the tokens of the frame that pass the three criteria
apply_quality_filters(panel) ==
    {t \in Tokens :
        /\ RowCount(panel[t]) > 0
        /\ ~LowMarketCap(panel[t])
        /\ ~(RowCount(panel[t]) < MinRows)
        /\ ~ExtremeChange(panel[t])}

\* the frame without its rows dated after the cutoff
UpTo(panel) == [t \in Tokens |-> [panel[t] EXCEPT !.later = <<>>]]

Filtering == variant = "apply_quality_filters" /\ pc = "call"

\* the frame receives one more observation of token t, dated after the cutoff
Observe ==
    /\ Filtering
    /\ \E t \in Tokens, o \in Observations :
           /\ Len(input.panel[t].later) < MaxLater
           /\ input' = [input EXCEPT !.panel[t].later = Append(@, o)]
    /\ UNCHANGED <<variant, pc, output, IdleVars, ingestion>>

\* clean_data filters the frame as it stands; beside it, the same filter on
\* the rows up to the cutoff
Filter ==
    /\ Filtering
    /\ output' = [kind |-> "filtered",
                  kept |-> apply_quality_filters(input.panel),
                  kept_up_to |-> apply_quality_filters(UpTo(input.panel))]
    /\ pc' = "returned"
    /\ UNCHANGED <<variant, input, IdleVars, ingestion>>

InitFilter ==
    /\ variant = "apply_quality_filters"
    /\ pc = "call"
    /\ input \in [kind : {"frame"},
                  panel : [Tokens -> [rows : (MinRows - RowsShort) .. MinRows,
                                      value : {Fx(1)},
                                      market_cap : McapLevels,
                                      later : {<<>>}]]]
    /\ output = None
    /\ Idle
    /\ NoIngestion

NextFilter == Observe \/ Filter

SpecFilter == InitFilter /\ [][NextFilter]_vars

\* C2: the tokens eligible at cutoff date D are the same whether or not the
\* frame holds observations dated after D.
C2_EligibilityIgnoresLater ==
    output.kind = "filtered" => output.kept = output.kept_up_to

\* the market capitalisation of the token's last observation in the frame
LatestMarketCap(h) ==
    IF h.later = <<>> THEN h.market_cap ELSE h.later[Len(h.later)].market_cap

\* C31: the filter rejects a token on the market-capitalisation rule exactly
\* when the token's latest market capitalisation is below the threshold: a
\* token whose latest market capitalisation is below it is not kept, and one
\* whose latest market capitalisation is at or above it is not rejected by
\* that rule.
C31_LatestMarketCapDecides ==
    output.kind = "filtered" =>
        \A t \in Tokens :
            /\ LatestMarketCap(input.panel[t]) < MinAvgMcap => t \notin output.kept
            /\ LatestMarketCap(input.panel[t]) >= MinAvgMcap
                   => ~LowMarketCap(input.panel[t])

----------------------------------------------------------------------------
(* Selection among more candidates than positions: lines 116-118 of         *)
(* backtesting.py (200-202 of reversion_momentum.py) on a candidate frame   *)
(* given by its rows' quality scores, in frame order.                       *)

MaxCandidates == 11

ScoreLevels == {Fx(1) \div 4, Fx(1) \div 2}

Ranking == variant \in MRVariants /\ pc = "rank"

\* n_tokens = min(TopK, len(candidates)); candidates.nlargest(n_tokens, ...)
Rank ==
    /\ Ranking
    /\ LET score == input.score
           n_tokens == Min(TopK, Len(score))
       IN  output' = [kind |-> "ranked",
                      selected |-> nlargest(n_tokens, score,
                                            [k \in DOMAIN score |-> k])]
    /\ pc' = "returned"
    /\ UNCHANGED <<variant, input, IdleVars, ingestion>>

InitRank ==
    /\ variant \in MRVariants
    /\ pc = "rank"
    /\ \E n \in 1 .. MaxCandidates :
           input \in [kind : {"candidates"}, score : [1 .. n -> ScoreLevels]]
    /\ output = None
    /\ Idle
    /\ NoIngestion

\* the mean-reversion simulators together with the selection on wider frames
InitSelect == InitMR \/ InitRank

NextSelect == NextMR \/ Rank

SpecSelect == InitSelect /\ [][NextSelect]_vars

\* sel are min(K, |C|) members of C, none scored below a member left out
BestOf(sel, score) ==
    LET C == DOMAIN score
    IN  /\ sel \subseteq C
        /\ Cardinality(sel) = Min(TopK, Cardinality(C))
        /\ \A s \in sel, u \in C \ sel : score[s] >= score[u]

\* C12: the mean-reversion simulators never hold more than K positions, and
\* a rebalance selects the K candidates with the highest quality score, all
\* of them when fewer than K qualify.
C12_AtMostKBestSelected ==
    /\ variant \in MRVariants => Cardinality(Held(current_positions)) <= TopK
    /\ variant \in MRVariants /\ branch = "rebuilt" =>
           LET C == candidates(prev.i)
           IN  BestOf(Held(prev.pos), [t \in C |-> quality_score(t, C, prev.i)])
    /\ output.kind = "ranked" => BestOf(output.selected, input.score)

C12_Witness ==
    /\ output.kind = "ranked"
    /\ Len(input.score) > TopK
    /\ Cardinality(output.selected) = TopK
    /\ \E s \in output.selected, u \in DOMAIN input.score \ output.selected :
           input.score[s] > input.score[u]

----------------------------------------------------------------------------
(* Indicators: indicators.calculate_indicators(df) and calculate_rsi        *)
(*                                                                          *)
(* The frame is checked in pairs: a base frame, and the same frame with one *)
(* observation added, removed or changed.  Both tokens are observed daily   *)
(* from day 1 to LastDay except on GapDay, where an observation can be      *)
(* added; one can also be added on the day after LastDay.                   *)

\* days after the longest window has filled, and base frames
TailDays == 3
MaxSeed == 0

LongWindow == 200
Sqrt365 == 191049

LastDay == LongWindow + TailDays + 1
GapDay == LastDay - 1

Inf == S * S + 1
NegInf == -(S * S) - 1

IsNumber(x) == x \notin {NaN, Inf, NegInf}

\* float division: x / 0 is an infinity, 0 / 0 is missing
Div(a, b) ==
    IF ~IsNumber(a) \/ ~IsNumber(b) THEN NaN
    ELSE IF b = 0 THEN (IF a = 0 THEN NaN ELSE IF a > 0 THEN Inf ELSE NegInf)
    ELSE FDiv(a, b)

RECURSIVE SqrtIn(_, _, _)
SqrtIn(n, lo, hi) ==
    IF lo = hi THEN lo
    ELSE LET mid == (lo + hi + 1) \div 2
         IN  IF mid * mid <= n THEN SqrtIn(n, mid, hi) ELSE SqrtIn(n, lo, mid - 1)

\* the square root of a fixed-point number, rounded down
FSqrt(x) == SqrtIn(x * S, 0, 46340)

BaseDays == (1 .. LastDay) \ {GapDay}

BaseRow(tok, ts, seed) ==
    [timestamp |-> ts,
     value |-> Fx(10) + ((ts * 7 + TokenOrder(tok) * 3 + seed * 5) % 11) * (S \div 10),
     total_volume |-> Fx(100) + ((ts * 3 + TokenOrder(tok) + seed) % 7) * S]

Levels ==
    [low |-> [value |-> Fx(9), total_volume |-> Fx(50)],
     high |-> [value |-> Fx(12), total_volume |-> Fx(200)]]

\* the change made to the base frame
Changes ==
    {m \in [op : {"add", "remove", "change"}, token : Tokens,
            timestamp : {1} \cup ((LongWindow - 1) .. (LastDay + 1)),
            level : {"low", "high"}] :
        /\ m.op = "add" <=> m.timestamp \notin BaseDays
        /\ m.op = "remove" => m.level = "low"}

\* the timestamps of token tok in the base frame or in the changed one
Stamps(tok, changed) ==
    IF changed /\ input.change.token = tok
    THEN CASE input.change.op = "add"    -> BaseDays \cup {input.change.timestamp}
           [] input.change.op = "remove" -> BaseDays \ {input.change.timestamp}
           [] OTHER                      -> BaseDays
    ELSE BaseDays

RowOf(tok, ts, changed) ==
    IF /\ changed
       /\ input.change.token = tok
       /\ input.change.timestamp = ts
    THEN [timestamp |-> ts,
          value |-> Levels[input.change.level].value,
          total_volume |-> Levels[input.change.level].total_volume]
    ELSE BaseRow(tok, ts, input.seed)

RECURSIVE RowsBetween(_, _, _, _)
\* the rows of the token dated lo .. hi, in timestamp order
RowsBetween(tok, lo, hi, changed) ==
    IF lo > hi THEN <<>>
    ELSE IF lo = hi
    THEN (IF lo \in Stamps(tok, changed) THEN <<RowOf(tok, lo, changed)>> ELSE <<>>)
    ELSE LET mid == (lo + hi) \div 2
         IN  RowsBetween(tok, lo, mid, changed) \o RowsBetween(tok, mid + 1, hi, changed)

\* line 20: df[df['token_address'] == token_addr].sort_values('timestamp')
token_data(tok, changed) == RowsBetween(tok, 1, LastDay + 1, changed)

RECURSIVE SumWithin(_, _, _, _)
\* the sum of col over the rows of W numbered lo .. hi
SumWithin(col, W, lo, hi) ==
    IF lo > hi THEN 0
    ELSE IF lo = hi THEN (IF lo \in W THEN col[lo] ELSE 0)
    ELSE LET mid == (lo + hi) \div 2
         IN  SumWithin(col, W, lo, mid) + SumWithin(col, W, mid + 1, hi)

Sum(col, W) == SumWithin(col, W, 1, Len(col))

RollingWindow_Centred(k, w) == (k - w \div 2) .. (k + (w - 1) \div 2)

\* rolling(window=w): the w rows ending at row k
RollingWindow(k, w) == (k - w + 1) .. k

\* min_periods defaults to the window: every row of the window exists and
\* holds a number
Complete(col, W) == W \subseteq DOMAIN col /\ \A j \in W : IsNumber(col[j])

\* rolling(window=w).mean() at row k
rolling_mean(col, k, w) ==
    LET W == RollingWindow(k, w)
    IN  IF Complete(col, W) THEN Sum(col, W) \div w ELSE NaN

\* rolling(window=w).std() at row k: the sample standard deviation
rolling_std(col, k, w) ==
    LET W == RollingWindow(k, w)
        mean == Sum(col, W) \div w
        squares == [j \in DOMAIN col |->
                       IF j \in W THEN FMul(col[j] - mean, col[j] - mean) ELSE 0]
    IN  IF Complete(col, W) THEN FSqrt(Sum(squares, W) \div (w - 1)) ELSE NaN

\* pct_change(n) at row k
pct_change(col, k, n) ==
    IF k - n \in DOMAIN col THEN Div(col[k] - col[k - n], col[k - n]) ELSE NaN

\* lines 81-88
calculate_rsi(prices, k, period) ==
    LET delta == [j \in DOMAIN prices |-> IF j = 1 THEN NaN ELSE prices[j] - prices[j - 1]]
        gains == [j \in DOMAIN prices |->
                     IF IsNumber(delta[j]) /\ delta[j] > 0 THEN delta[j] ELSE 0]
        losses == [j \in DOMAIN prices |->
                     IF IsNumber(delta[j]) /\ delta[j] < 0 THEN -delta[j] ELSE 0]
        gain == rolling_mean(gains, k, period)
        loss == rolling_mean(losses, k, period)
        rs == Div(gain, loss)
    IN  IF rs = NaN THEN NaN
        ELSE IF rs = Inf THEN Fx(100)
        ELSE Fx(100) - FDiv(Fx(100), S + rs)

Plus(a, b) == IF IsNumber(a) /\ IsNumber(b) THEN a + b ELSE NaN

Minus(a, b) == IF IsNumber(a) /\ IsNumber(b) THEN a - b ELSE NaN

Times(a, b) == IF IsNumber(a) /\ IsNumber(b) THEN FMul(a, b) ELSE NaN

NoIndicators == [present |-> FALSE]

\* lines 19-76: the indicator columns of the row of token tok dated ts
calculate_indicators(tok, ts, changed) ==
    LET rows == token_data(tok, changed)
        k == CHOOSE j \in 1 .. Len(rows) : rows[j].timestamp = ts
        value == [j \in 1 .. Len(rows) |-> rows[j].value]
        total_volume == [j \in 1 .. Len(rows) |-> rows[j].total_volume]
        returns == [j \in 1 .. Len(rows) |-> pct_change(value, j, 1)]
        bb_middle == rolling_mean(value, k, 20)
        bb_std == rolling_std(value, k, 20)
        bb_upper == Plus(bb_middle, Times(Fx(2), bb_std))
        bb_lower == Minus(bb_middle, Times(Fx(2), bb_std))
        sma_20 == rolling_mean(value, k, 20)
        sma_50 == rolling_mean(value, k, 50)
        momentum_30d == pct_change(value, k, 30)
        volume_sma_20 == rolling_mean(total_volume, k, 20)
        volatility_30d == Times(rolling_std(returns, k, 30), Sqrt365)
    IN  IF ts \notin Stamps(tok, changed) THEN NoIndicators
        ELSE [present |-> TRUE,
              returns |-> returns[k],
              sma |-> [w \in 5 .. 30 |-> rolling_mean(value, k, w)],
              sma_50 |-> sma_50,
              sma_200 |-> rolling_mean(value, k, LongWindow),
              bb_middle |-> bb_middle,
              bb_std |-> bb_std,
              bb_upper |-> bb_upper,
              bb_lower |-> bb_lower,
              bb_position |-> Div(Minus(value[k], bb_lower), Minus(bb_upper, bb_lower)),
              rsi |-> calculate_rsi(value, k, 14),
              momentum_7d |-> pct_change(value, k, 7),
              momentum_30d |-> momentum_30d,
              volume_sma_20 |-> volume_sma_20,
              volume_ratio |-> Div(total_volume[k], volume_sma_20),
              volatility_30d |-> volatility_30d,
              sma_crossover |-> Minus(sma_20, sma_50),
              mom_vol_ratio |-> Div(momentum_30d, volatility_30d)]

\* the indicators of one row are computed from the base frame and from the
\* changed frame
Calculate ==
    /\ variant = "calculate_indicators"
    /\ pc = "call"
    /\ output' = [kind |-> "indicators",
                  base |-> calculate_indicators(input.asset, input.t, FALSE),
                  changed |-> calculate_indicators(input.asset, input.t, TRUE)]
    /\ pc' = "returned"
    /\ UNCHANGED <<variant, input, IdleVars, ingestion>>

InitIndicators ==
    /\ variant = "calculate_indicators"
    /\ pc = "call"
    /\ input \in [kind : {"frames"}, seed : 0 .. MaxSeed, asset : Tokens,
                  t : (LongWindow .. LastDay) \cap BaseDays, change : Changes]
    /\ output = None
    /\ Idle
    /\ NoIngestion

NextIndicators == Calculate

SpecIndicators == InitIndicators /\ [][NextIndicators]_vars

\* the change touches another token, or a date after the row's
ChangeIsLaterOrElsewhere ==
    \/ input.change.token # input.asset
    \/ input.change.timestamp > input.t

\* C1: the indicator values of an asset's row dated t are the same in two
\* frames that differ only by an observation of another asset or by an
\* observation dated after t.
C1_IndicatorsCausal ==
    output.kind = "indicators" /\ ChangeIsLaterOrElsewhere
        => output.base = output.changed

C1_Witness ==
    /\ output.kind = "indicators"
    /\ input.change.token = input.asset
    /\ input.change.timestamp > input.t
    /\ input.change.op = "change"
    /\ IsNumber(output.changed.sma_200)
    /\ IsNumber(output.changed.volatility_30d)
    /\ IsNumber(output.changed.rsi)


\* the days of the base frame before its gap: the k-th observation of a
\* token is dated k
GapFreeDays == 1 .. (GapDay - 1)

\* the indicators of one row of a gap-free series
CalculateSeries ==
    /\ variant = "indicator_series"
    /\ pc = "call"
    /\ output' = [kind |-> "series",
                  row |-> calculate_indicators(input.asset, input.t, FALSE)]
    /\ pc' = "returned"
    /\ UNCHANGED <<variant, input, IdleVars, ingestion>>

InitSeries ==
    /\ variant = "indicator_series"
    /\ pc = "call"
    /\ input \in [kind : {"series"}, seed : 0 .. MaxSeed, asset : Tokens,
                  t : GapFreeDays]
    /\ output = None
    /\ Idle
    /\ NoIngestion

NextSeries == CalculateSeries

SpecSeries == InitSeries /\ [][NextSeries]_vars

\* a column is missing on the first W - 1 observations and a number from the
\* W-th on
FilledFrom(x, W) == IsNumber(x) <=> input.t >= W

\* C30: on a gap-free series of one asset, every rolling indicator with
\* window W (the moving averages, the Bollinger mean and deviation over 20,
\* the RSI over 14, the volume average over 20, the volatility over 30 and
\* the momentum over 7 and 30 days) is missing on the first W - 1
\* observations and is a number on every observation from the W-th on.
C30_MissingUntilWindowFull ==
    output.kind = "series" =>
        /\ \A w \in 5 .. 30 : FilledFrom(output.row.sma[w], w)
        /\ FilledFrom(output.row.sma_50, 50)
        /\ FilledFrom(output.row.sma_200, LongWindow)
        /\ FilledFrom(output.row.bb_middle, 20)
        /\ FilledFrom(output.row.bb_std, 20)
        /\ FilledFrom(output.row.rsi, 14)
        /\ FilledFrom(output.row.volume_sma_20, 20)
        /\ FilledFrom(output.row.volatility_30d, 30)
        /\ FilledFrom(output.row.momentum_7d, 7)
        /\ FilledFrom(output.row.momentum_30d, 30)

----------------------------------------------------------------------------
(* The analyzer: performance.calculate_performance_metrics(portfolio_df,    *)
(* initial_capital).                                                        *)
(*                                                                          *)
(* Fractions are carried in units of 1/S, which are hundredths of a         *)
(* percent: round(x * 100, 2) keeps the number.  A float beyond the range   *)
(* of the fixed-point numbers is carried as Huge (or -Huge): the            *)
(* annualisation raises the growth factor to the power 365 / n_days.        *)

MaxSeries == 3

Huge == S * S - 1

ValueLevels == {Fx(50), Fx(100), Fx(200)}

Abs(x) == IF x < 0 THEN -x ELSE x

\* a / b for numbers a and b > 0, kept within -Huge .. Huge
SatDiv(a, b) ==
    IF Abs(a) \div b >= S THEN (IF a > 0 THEN Huge ELSE -Huge) ELSE FDiv(a, b)

RECURSIVE PowAcc(_, _, _)
\* acc * x^k for x >= 0, stopping where the product leaves the range
PowAcc(acc, x, k) ==
    IF k = 0 \/ acc = 0 \/ acc = Huge THEN acc
    ELSE PowAcc(Min(FMul(acc, x), Huge), x, k - 1)

\* x ** (1 / years), years = n_days / 365, for x >= 0: exact where x is 1 and
\* where the whole power 365 \div n_days already leaves the range
Power(x, n_days) == IF x = S THEN S ELSE PowAcc(S, x, 365 \div n_days)

\* the rows of a column that hold a number
Valid(col) == {k \in DOMAIN col : IsNumber(col[k])}

\* Series.std(): the sample standard deviation of the numbers of the column,
\* missing when there are fewer than two
Std(col) ==
    LET V == Valid(col)
        n == Cardinality(V)
        mean == Sum(col, V) \div n
        squares == [k \in DOMAIN col |->
                       IF k \in V THEN FMul(col[k] - mean, col[k] - mean) ELSE 0]
    IN  IF n < 2 THEN NaN ELSE FSqrt(Sum(squares, V) \div (n - 1))

RECURSIVE CumProd(_, _)
\* (1 + col).cumprod() at row k: missing values are skipped and stay missing
CumProd(col, k) ==
    IF k = 0 THEN S
    ELSE IF ~IsNumber(col[k]) THEN CumProd(col, k - 1)
    ELSE FMul(CumProd(col, k - 1), S + col[k])

\* Series.min() and expanding().max(): over the numbers, missing when none
MinOf(D) == IF D = {} THEN NaN ELSE CHOOSE x \in D : \A y \in D : x <= y

MaxOf(D) == IF D = {} THEN NaN ELSE Max(D)

\* cumulative.expanding().max() at row k
RunningMax(col, k) == MaxOf({col[j] : j \in Valid(col) \cap (1 .. k)})

\* round(x, 2) of a ratio
Round2(x) == IF IsNumber(x) THEN ((x + 50) \div 100) * 100 ELSE x

\* lines 14-56, for a series of at least one row
Metrics(series, initial) ==
    LET n_days == Len(series)
        value == [k \in 1 .. n_days |-> series[k].portfolio_value]
        final_value == value[n_days]
        total_return == FDiv(final_value - initial, initial)
        daily_return == [k \in 1 .. n_days |->
                            IF k = 1 THEN NaN
                            ELSE Div(value[k] - value[k - 1], value[k - 1])]
        annualized_return == Power(FDiv(final_value, initial), n_days) - S
        volatility == Times(Std(daily_return), Sqrt365)
        sharpe_ratio == IF Gt(volatility, 0) THEN SatDiv(annualized_return, volatility)
                        ELSE 0
        cumulative == [k \in 1 .. n_days |->
                          IF IsNumber(daily_return[k]) THEN CumProd(daily_return, k)
                          ELSE NaN]
        running_max == [k \in 1 .. n_days |-> RunningMax(cumulative, k)]
        drawdown == [k \in 1 .. n_days |->
                        Div(Minus(cumulative[k], running_max[k]), running_max[k])]
        max_drawdown == MinOf({drawdown[k] : k \in Valid(drawdown)})
        wins == Cardinality({k \in Valid(daily_return) : daily_return[k] > 0})
        win_rate == Div(Fx(wins), Fx(Cardinality(Valid(daily_return))))
        calmar_ratio == IF max_drawdown = 0 THEN 0
                        ELSE IF max_drawdown = NaN THEN NaN
                        ELSE SatDiv(annualized_return, Abs(max_drawdown))
        held == [k \in 1 .. n_days |-> Fx(series[k].n_tokens)]
    IN  [initial_capital_usd   |-> (initial + S \div 2) \div S,
         final_value_usd       |-> (final_value + S \div 2) \div S,
         total_return_pct      |-> total_return,
         annualized_return_pct |-> annualized_return,
         volatility_pct        |-> volatility,
         max_drawdown_pct      |-> max_drawdown,
         win_rate_pct          |-> win_rate,
         sharpe_ratio          |-> Round2(sharpe_ratio),
         calmar_ratio          |-> Round2(calmar_ratio),
         backtest_days         |-> n_days,
         avg_tokens_held       |-> Round2(Sum(held, 1 .. n_days) \div n_days)]

\* line 14: iloc[-1] of an empty column raises IndexError
calculate_performance_metrics(series, initial) ==
    IF Len(series) = 0 THEN Raised("IndexError")
    ELSE [kind |-> "metrics", metrics |-> Metrics(series, initial)]

Analyze ==
    /\ variant = "calculate_performance_metrics"
    /\ pc = "call"
    /\ output' = calculate_performance_metrics(input.series, input.initial_capital)
    /\ pc' = "returned"
    /\ UNCHANGED <<variant, input, IdleVars, ingestion>>

InitAnalyzer ==
    /\ variant = "calculate_performance_metrics"
    /\ pc = "call"
    /\ \E n \in 0 .. MaxSeries :
           input \in [kind : {"series"},
                      initial_capital : {Fx(100)},
                      series : [1 .. n -> [portfolio_value : ValueLevels,
                                           n_tokens : {0, 1}]]]
    /\ output = None
    /\ Idle
    /\ NoIngestion

NextAnalyzer == Analyze

SpecAnalyzer == InitAnalyzer /\ [][NextAnalyzer]_vars

MetricNames ==
    {"initial_capital_usd", "final_value_usd", "total_return_pct",
     "annualized_return_pct", "volatility_pct", "max_drawdown_pct",
     "win_rate_pct", "sharpe_ratio", "calmar_ratio", "backtest_days",
     "avg_tokens_held"}

\* C18: on a non-empty series, a single entry or a constant series included,
\* every metric returned is a number, none is missing; on an empty series the
\* analyzer fails instead of returning metrics.
C18_MetricsAreNumbers ==
    pc = "returned" =>
        IF Len(input.series) = 0 THEN output.kind = "raised"
        ELSE /\ output.kind = "metrics"
             /\ \A m \in MetricNames : output.metrics[m] # NaN

NonDecreasing(series) ==
    \A k \in 1 .. Len(series) - 1 :
        series[k].portfolio_value <= series[k + 1].portfolio_value

\* C20: the max drawdown, where the analyzer returns one, lies in [-1, 0] and
\* is 0 exactly when the value series is non-decreasing.
C20_MaxDrawdownRange ==
    output.kind = "metrics" /\ output.metrics.max_drawdown_pct # NaN =>
        /\ output.metrics.max_drawdown_pct \in -S .. 0
        /\ output.metrics.max_drawdown_pct = 0 <=> NonDecreasing(input.series)

----------------------------------------------------------------------------
(* The database service: data/db.py, over one psycopg2 connection.  A       *)
(* statement acts on session, the tables as the open transaction sees them; *)
(* commit() makes session the stored tables and rollback() makes the stored *)
(* tables the session.  One call of a method is one step.                   *)

Addresses == {"0xa", "0xb"}

Timestamps == {1, 2}

\* what the API reports for a day: value, marketCap, totalVolume
Quotes == {[value |-> 1, marketCap |-> 10, totalVolume |-> 100],
           [value |-> 2, marketCap |-> 20, totalVolume |-> 200]}

\* the price dictionaries of the API
PriceDicts ==
    {[timestamp |-> ts, value |-> q.value, marketCap |-> q.marketCap,
      totalVolume |-> q.totalVolume] : ts \in Timestamps, q \in Quotes}

\* the lists a call is given: MaxRows elements at most
MaxRows == 2

ListsOf(A) == UNION {[1 .. n -> A] : n \in 0 .. MaxRows}

\* psycopg2.extras.execute_values sends page_size rows per statement
PageSize == 100

\* what makes a statement of the call fail for reasons of the server or the
\* connection: nothing, one of the CREATE statements, the INSERT, the commit
Faults == {"none", "execute", "execute_values", "commit"}

Returned == [kind |-> "returned"]

\* UNIQUE(token_address, timestamp)
Key(row) == <<row.token_address, row.timestamp>>

\* db.py lines 92-97: INSERT ... ON CONFLICT (token_address, timestamp) DO
\* UPDATE SET value, market_cap, total_volume, for one row
Upsert(table, row) == {r \in table : Key(r) # Key(row)} \cup {row}

RECURSIVE UpsertAll(_, _)
UpsertAll(table, rows) ==
    IF rows = <<>> THEN table
    ELSE UpsertAll(Upsert(table, Head(rows)), Tail(rows))

\* one INSERT ... ON CONFLICT DO UPDATE statement: PostgreSQL refuses a
\* statement that would update the same row twice (cardinality_violation)
InsertPrices(table, page) ==
    IF \E j, k \in DOMAIN page : j < k /\ Key(page[j]) = Key(page[k])
    THEN [ok |-> FALSE, table |-> table, error |-> "CardinalityViolation"]
    ELSE [ok |-> TRUE, table |-> UpsertAll(table, page), error |-> "none"]

RECURSIVE InsertContracts(_, _)
\* a bug the statement could have: no ON CONFLICT clause and no UNIQUE
\* constraint, every given row is inserted
InsertContracts_Always(table, page) ==
    [ok |-> TRUE, table |-> table \o page, error |-> "none"]

\* public.py lines 9-13: INSERT ... ON CONFLICT (token_address) DO NOTHING
InsertContracts(table, page) ==
    IF page = <<>> THEN [ok |-> TRUE, table |-> table, error |-> "none"]
    ELSE InsertContracts(IF \E k \in DOMAIN table : table[k] = Head(page)
                         THEN table ELSE Append(table, Head(page)),
                         Tail(page))

RECURSIVE execute_values(_, _, _)
\* execute_values(curs, sql, rows): one statement per page of the rows, in
\* order; the pages before a failing statement stay in the transaction
execute_values(table, rows, into) ==
    IF rows = <<>> THEN [ok |-> TRUE, table |-> table, error |-> "none"]
    ELSE LET n == Min(PageSize, Len(rows))
             page == SubSeq(rows, 1, n)
             done == IF into = "prices" THEN InsertPrices(table, page)
                     ELSE InsertContracts(table, page)
         IN  IF done.ok THEN execute_values(done.table, SubSeq(rows, n + 1, Len(rows)), into)
             ELSE done

\* a bug the handler could have: the failed transaction stays open
rollback_Skipped(pending) == pending

\* conn.rollback(): the transaction's changes are discarded
rollback(pending) == store

\* db.py lines 23-32 and 62-105: the CREATE statements (creates of them), the
\* insert, conn.commit(); on any exception conn.rollback() and raise e.  The
\* result is the stored tables, the session, the calls made on the connection
\* and what the caller gets.
Transaction(creates, rows, done, after, fault) ==
    LET created == [k \in 1 .. creates |-> "execute"]
        error == IF fault = "execute" THEN "OperationalError"
                 ELSE IF fault = "execute_values" /\ rows # <<>> THEN "OperationalError"
                 ELSE IF ~done.ok THEN done.error
                 ELSE IF fault = "commit" THEN "OperationalError"
                 ELSE "none"
        calls == IF fault = "execute" THEN <<"execute">>
                 ELSE IF error # "none" /\ ~(done.ok /\ fault = "commit")
                      THEN created \o <<"execute_values">>
                 ELSE created \o <<"execute_values", "commit">>
        pending == IF fault \in {"execute", "execute_values"} /\ error = "OperationalError"
                       /\ (fault = "execute" \/ rows # <<>>)
                   THEN session ELSE after
    IN  IF error = "none"
        THEN [store |-> after, session |-> after, trace |-> calls,
              output |-> Returned]
        ELSE [store |-> store, session |-> rollback(pending),
              trace |-> calls \o <<"rollback">>, output |-> Raised(error)]

\* lines 52-61
PriceRows(token_address, prices) ==
    [k \in DOMAIN prices |->
        [token_address |-> token_address, value |-> prices[k].value,
         timestamp |-> prices[k].timestamp, market_cap |-> prices[k].marketCap,
         total_volume |-> prices[k].totalVolume]]

\* DBService.store_prices(token_address, prices)
store_prices(token_address, prices, fault) ==
    LET rows == PriceRows(token_address, prices)
        done == execute_values(session.prices, rows, "prices")
    IN  Transaction(4, rows, done, [session EXCEPT !.prices = done.table], fault)

\* DBService.store_tokens(tokens)
store_tokens(tokens, fault) ==
    LET done == execute_values(session.contracts, tokens, "contracts")
    IN  Transaction(1, tokens, done, [session EXCEPT !.contracts = done.table], fault)

\* DBService.get_tokens(): the rows of contracts, in the order of the table
get_tokens == store.contracts

\* the rows of a call that are the last of the call for their key
Given(rows) ==
    {rows[k] : k \in {j \in DOMAIN rows :
                         \A l \in DOMAIN rows : l > j => Key(rows[l]) # Key(rows[j])}}

ServiceVars == <<variant, IdleVars, frame>>

\* a caller calls store_tokens
StoreTokens ==
    /\ variant = "store_tokens"
    /\ pc = "call"
    /\ pc' = "returned"
    /\ \E tokens \in ListsOf(Addresses), fault \in Faults :
           LET call == store_tokens(tokens, fault)
           IN  /\ input' = [kind |-> "call", tokens |-> tokens, fault |-> fault]
               /\ store' = call.store
               /\ session' = call.session
               /\ trace' = call.trace
               /\ output' = call.output
    /\ UNCHANGED ServiceVars

\* a caller calls store_prices
StorePrices ==
    /\ variant = "store_prices"
    /\ pc = "call"
    /\ pc' = "returned"
    /\ \E token_address \in Addresses, prices \in ListsOf(PriceDicts), fault \in Faults :
           LET call == store_prices(token_address, prices, fault)
           IN  /\ input' = [kind |-> "call", token_address |-> token_address,
                            prices |-> prices, fault |-> fault]
               /\ store' = call.store
               /\ session' = call.session
               /\ trace' = call.trace
               /\ output' = call.output
    /\ UNCHANGED ServiceVars

\* the tables earlier calls can have left: contracts without a repeated
\* address, prices without a repeated key
ContractTables ==
    {c \in ListsOf(Addresses) : \A j, k \in DOMAIN c : c[j] = c[k] => j = k}

PriceTables ==
    LET rows == UNION {{r[1] : r \in {PriceRows(a, <<d>>) : d \in PriceDicts}} :
                          a \in Addresses}
    IN  {T \in SUBSET rows : \A r, q \in T : Key(r) = Key(q) => r = q}

\* a connection without an open transaction, before the call
InitDB ==
    /\ variant \in {"store_tokens", "store_prices"}
    /\ pc = "call"
    /\ input = None
    /\ output = None
    /\ Idle
    /\ store \in [contracts : ContractTables, prices : PriceTables]
    /\ session = store
    /\ trace = <<>>
    /\ frame = None

NextDB == StoreTokens \/ StorePrices

SpecDB == InitDB /\ [][NextDB]_vars

\* C22: the prices table holds at most one row per (token_address,
\* timestamp); after a store_prices call that the server does not fail, every
\* key the call wrote holds the row the call gave last for it (last write
\* wins) and the rows of the other keys are as they were.
C22_LastWriteWins ==
    [][variant = "store_prices" /\ input'.fault = "none" =>
           LET rows == PriceRows(input'.token_address, input'.prices)
               keys == {Key(r) : r \in Given(rows)}
           IN  /\ \A r, q \in store'.prices : Key(r) = Key(q) => r = q
               /\ \A r \in Given(rows) : r \in store'.prices
               /\ \A r \in store'.prices : Key(r) \notin keys => r \in store.prices
               /\ \A r \in store.prices : Key(r) \notin keys => r \in store'.prices
      ]_vars

\* C27: a call commits exactly when all its statements succeed, and then
\* nothing stays pending; a call in which a statement raises rolls back, does
\* not commit, raises to the caller and leaves the stored tables as they were.
C27_CommitOrRollback ==
    [][LET calls == trace'
           Count(c) == Cardinality({k \in DOMAIN calls : calls[k] = c})
           succeeded == Count("commit") = 1 /\ Count("rollback") = 0
       IN  /\ session' = store'
           /\ output'.kind \in {"returned", "raised"}
           /\ output'.kind = "returned" <=> succeeded
           /\ succeeded => /\ calls[Len(calls)] = "commit"
                           /\ calls[Len(calls) - 1] = "execute_values"
                           /\ input'.fault \in {"none", "execute_values"}
           /\ output'.kind = "raised" =>
                  /\ Count("rollback") = 1
                  /\ calls[Len(calls)] = "rollback"
                  /\ store' = store
      ]_vars

C27_Witness ==
    /\ output.kind = "raised"
    /\ trace = <<"execute", "execute", "execute", "execute", "execute_values",
                 "commit", "rollback">>
    /\ Len(input.prices) = MaxRows
    /\ store.prices # {}

\* C39: after a store_tokens call the contracts table holds each address at
\* most once, and a call whose addresses are all in the table already leaves
\* the table as it was.
C39_StoreTokensIdempotent ==
    [][variant = "store_tokens" =>
           /\ \A j, k \in DOMAIN store'.contracts :
                  store'.contracts[j] = store'.contracts[k] => j = k
           /\ (\A n \in DOMAIN input'.tokens :
                   \E k \in DOMAIN store.contracts :
                       store.contracts[k] = input'.tokens[n])
                  => store'.contracts = store.contracts
      ]_vars

\* a committed call that gave an address twice, stored beside an earlier row
C39_Witness ==
    /\ variant = "store_tokens"
    /\ output.kind = "returned"
    /\ \E j, k \in DOMAIN input.tokens : j < k /\ input.tokens[j] = input.tokens[k]
    /\ \E k \in DOMAIN store.contracts :
           \A n \in DOMAIN input.tokens : input.tokens[n] # store.contracts[k]
----------------------------------------------------------------------------
(* The price fetcher: fetcher.get_token_prices, a generator whose body runs *)
(* when the caller asks for the first price.  One request and the handling  *)
(* of its response (one iteration of the retry loop) is one step.           *)

MaxRetries == 2

\* the arguments max_retries and retry_delay given
RetriesGiven == -1 .. MaxRetries

RetryDelays == {30, 60}

\* what the API answers: a status code and a body
ErrorBodies == {"error_json", "empty", "text"}

Responses ==
    [status : {200}, body : {"missing_data", "empty_list", "empty_prices",
                             "missing_prices", "scalar"}, prices : {<<>>}]
        \cup [status : {200}, body : {"list", "dict"},
              prices : {<<d>> : d \in PriceDicts}]
        \cup [status : {404, 429, 500}, body : ErrorBodies, prices : {<<>>}]

Post(resp) == [kind |-> "post", status |-> resp.status, seconds |-> 0]

Sleep(seconds) == [kind |-> "sleep", status |-> 0, seconds |-> seconds]

Yielded(prices) == [kind |-> "yielded", prices |-> prices]

\* lines 134-162: the prices of the response the loop ended with
ParsePrices(resp) ==
    IF resp.body \in {"empty", "text"} THEN Raised("JSONDecodeError")
    ELSE IF resp.body \in {"error_json", "missing_data", "missing_prices", "scalar"}
         THEN Raised("RuntimeError")
    ELSE Yielded(resp.prices)

\* a bug the retry test could have: the last attempt is retried as well
CanRetry_Inclusive(attempt) == attempt <= input.max_retries

\* line 108
CanRetry(attempt) == attempt < input.max_retries

FetchVars == <<variant, input, IdleVars, store, session>>

\* lines 74-93: the payload, _rate_limit() (which sleeps when the last request
\* is less than MIN_REQUEST_INTERVAL old) and the entry of the loop; with no
\* attempt to make, line 134 reads resp = None
GTP_Enter ==
    /\ variant = "get_token_prices"
    /\ pc = "call"
    /\ \E wait_time \in {0, 13} :
           trace' = IF wait_time > 0 THEN <<Sleep(wait_time)>> ELSE <<>>
    /\ frame' = [kind |-> "locals", attempt |-> 0]
    /\ IF 0 < input.max_retries + 1
       THEN pc' = "attempt" /\ UNCHANGED output
       ELSE pc' = "raised" /\ output' = Raised("AttributeError")
    /\ UNCHANGED FetchVars

\* lines 93-162: one pass of the loop body and, when the loop ends, the
\* reading of the response
GTP_Attempt ==
    /\ variant = "get_token_prices"
    /\ pc = "attempt"
    /\ \E resp \in Responses :
           LET attempt == frame.attempt
               retried == resp.status = 429 /\ resp.body # "text" /\ CanRetry(attempt)
               wait_time == input.retry_delay * (attempt + 1)
               result ==
                   IF resp.status = 429 /\ resp.body = "text"
                       THEN Raised("JSONDecodeError")
                   ELSE IF resp.status # 200 /\ ~retried THEN Raised("HTTPError")
                   ELSE IF retried /\ attempt + 1 < input.max_retries + 1 THEN None
                   ELSE ParsePrices(resp)
           IN  /\ trace' = IF retried THEN trace \o <<Post(resp), Sleep(wait_time)>>
                           ELSE Append(trace, Post(resp))
               /\ frame' = IF retried THEN [frame EXCEPT !.attempt = attempt + 1]
                           ELSE frame
               /\ output' = result
               /\ pc' = IF result = None THEN "attempt"
                        ELSE IF result.kind = "raised" THEN "raised" ELSE "done"
    /\ UNCHANGED FetchVars

InitFetch ==
    /\ variant = "get_token_prices"
    /\ pc = "call"
    /\ input \in [kind : {"args"}, max_retries : RetriesGiven,
                  retry_delay : RetryDelays]
    /\ output = None
    /\ Idle
    /\ NoIngestion

NextFetch == GTP_Enter \/ GTP_Attempt

SpecFetch == InitFetch /\ [][NextFetch]_vars

\* the places of the requests in the trace, and the number of requests made
\* up to place j
Posts == {j \in DOMAIN trace : trace[j].kind = "post"}

PostsUpTo(j) == Cardinality({k \in Posts : k <= j})

----------------------------------------------------------------------------
(* The rate limit of the price fetcher: fetcher._rate_limit and the retry   *)
(* loop of get_token_prices over successive calls, with the clock.  Times   *)
(* are whole seconds; frame holds the clock (time.time()), the module's     *)
(* global _last_request_time and the attempt of the call in progress, and   *)
(* trace the requests sent, each with the time it was sent at.              *)

MIN_REQUEST_INTERVAL == 13

\* the calls of a behaviour
MaxCalls == 2

\* the retry delays given, the seconds a caller lets pass between two calls
\* and the seconds a response takes
DelaysGiven == {1, 13, 60}
Pauses == {0, 5, 13}
Latencies == {0, 1}

PostAt(status, seconds) == [kind |-> "post", status |-> status, seconds |-> seconds]

\* lines 38-49: the time _rate_limit() returns at, which becomes
\* _last_request_time
rate_limit(current_time, last_request_time) ==
    LET time_since_last == current_time - last_request_time
    IN  IF time_since_last < MIN_REQUEST_INTERVAL
        THEN current_time + (MIN_REQUEST_INTERVAL - time_since_last)
        ELSE current_time

RateVars == <<variant, input, output, IdleVars, store, session>>

\* lines 74-93: a caller asks for the first price of a new call, pause
\* seconds after the call before ended
RL_Call ==
    /\ variant = "_rate_limit"
    /\ pc = "call"
    /\ frame.calls < MaxCalls
    /\ \E pause \in Pauses :
           LET started == rate_limit(frame.now + pause, frame.last_request_time)
           IN  frame' = [frame EXCEPT !.now = started,
                                      !.last_request_time = started,
                                      !.attempt = 0,
                                      !.calls = frame.calls + 1]
    /\ pc' = IF 0 < input.max_retries + 1 THEN "attempt" ELSE "call"
    /\ UNCHANGED <<RateVars, trace>>

\* lines 93-132: one request and the handling of its response
RL_Attempt ==
    /\ variant = "_rate_limit"
    /\ pc = "attempt"
    /\ \E status \in {200, 429}, latency \in Latencies :
           LET attempt == frame.attempt
               retried == status = 429 /\ CanRetry(attempt)
               wait_time == input.retry_delay * (attempt + 1)
               answered == frame.now + latency
           IN  /\ trace' = Append(trace, PostAt(status, frame.now))
               /\ frame' = IF retried
                           THEN [frame EXCEPT !.now = answered + wait_time,
                                              !.last_request_time = answered + wait_time,
                                              !.attempt = attempt + 1]
                           ELSE [frame EXCEPT !.now = answered]
               /\ pc' = IF retried THEN "attempt" ELSE "call"
    /\ UNCHANGED RateVars

\* the module is imported with _last_request_time = 0, long before the
\* first call
InitRate ==
    /\ variant = "_rate_limit"
    /\ pc = "call"
    /\ input \in [kind : {"args"}, max_retries : 0 .. MaxRetries,
                  retry_delay : DelaysGiven]
    /\ output = None
    /\ Idle
    /\ store = EmptyStore
    /\ session = EmptyStore
    /\ trace = <<>>
    /\ frame = [kind |-> "clock", now |-> 100, last_request_time |-> 0,
                attempt |-> 0, calls |-> 0]

NextRate == RL_Call \/ RL_Attempt

SpecRate == InitRate /\ [][NextRate]_vars

\* C34: any two consecutive requests, of one call or of successive calls,
\* are sent at least MIN_REQUEST_INTERVAL seconds apart, for every
\* retry_delay.
C34_RequestsSpacedApart ==
    variant = "_rate_limit" =>
        \A j \in 1 .. Len(trace) - 1 :
            trace[j + 1].seconds - trace[j].seconds >= MIN_REQUEST_INTERVAL

----------------------------------------------------------------------------
(* Token discovery: bot/check_tokens.check_new_tokens, with the token list  *)
(* of the API (data.get_available_tokens) as its input.                     *)

MaxTokens == 3

\* the addresses the API can list: the ones the database may hold and another
ApiAddresses == Addresses \cup {"0xc"}

RECURSIVE Dedup(_)

\* a bug the token list could have: repeated tokens are kept
Dedup_Keeps(tokens) == tokens

\* line 9: list(dict.fromkeys(tokens)): the first occurrence of each token
Dedup(tokens) ==
    IF tokens = <<>> THEN <<>>
    ELSE LET front == Dedup(SubSeq(tokens, 1, Len(tokens) - 1))
             last == tokens[Len(tokens)]
         IN  IF \E k \in DOMAIN front : front[k] = last THEN front
             ELSE Append(front, last)

\* line 15
NewTokens(api_tokens, db_tokens) ==
    LET fresh(t) == t \notin db_tokens
    IN  SelectSeq(api_tokens, fresh)

\* lines 8-19, the database answering without a failure
CheckNewTokens ==
    /\ variant = "check_new_tokens"
    /\ pc = "call"
    /\ LET api_tokens == Dedup(input.api_tokens)
           db_tokens == {get_tokens[k] : k \in DOMAIN get_tokens}
           new_tokens == NewTokens(api_tokens, db_tokens)
           call == store_tokens(new_tokens, "none")
       IN  /\ frame' = [kind |-> "locals", api_tokens |-> api_tokens,
                        db_tokens |-> db_tokens, new_tokens |-> new_tokens]
           /\ IF new_tokens # <<>>
              THEN /\ trace' = <<[kind |-> "get_tokens", tokens |-> <<>>],
                                 [kind |-> "store_tokens", tokens |-> new_tokens]>>
                   /\ store' = call.store
                   /\ session' = call.session
              ELSE /\ trace' = <<[kind |-> "get_tokens", tokens |-> <<>>]>>
                   /\ UNCHANGED <<store, session>>
           /\ output' = [kind |-> "returned", value |-> new_tokens]
    /\ pc' = "returned"
    /\ UNCHANGED <<variant, input, IdleVars>>

InitTokens ==
    /\ variant = "check_new_tokens"
    /\ pc = "call"
    /\ \E n \in 0 .. MaxTokens :
           input \in [kind : {"api"}, api_tokens : [1 .. n -> ApiAddresses]]
    /\ output = None
    /\ Idle
    /\ store \in [contracts : ContractTables, prices : {{}}]
    /\ session = store
    /\ trace = <<>>
    /\ frame = None

NextTokens == CheckNewTokens

SpecTokens == InitTokens /\ [][NextTokens]_vars

\* the place of the first occurrence of x in seq
FirstAt(seq, x) == CHOOSE j \in DOMAIN seq : seq[j] = x /\ \A k \in 1 .. j - 1 : seq[k] # x

Elements(seq) == {seq[k] : k \in DOMAIN seq}

----------------------------------------------------------------------------
(* The collector: historical_prices.fetch_and_store_all_historical_prices.  *)
(* Dates are day numbers.  One request of a batch, and the storing of a     *)
(* token's prices, are one step each.                                       *)

MAX_DAYS_PER_REQUEST == 365

MaxEnd == 735

Event(kind, address, start, end, prices, raised) ==
    [kind |-> kind, address |-> address, start |-> start, end |-> end,
     prices |-> prices, raised |-> raised]

\* the price the API reports for a day
PriceOn(day) == [timestamp |-> day, value |-> 1, marketCap |-> 10, totalVolume |-> 100]

\* lines 61-65: the locals at the start of the token at place k, or the end of
\* the loop over the tokens
TokenLocals(tokens, k) ==
    [kind |-> "locals", tokens |-> tokens, k |-> k,
     current_start |-> input.start_date, batch_num |-> 1, all_prices |-> <<>>]

\* a bug the loop could have: it ends after the token in hand
GoTo_Stops(tokens, k) ==
    /\ frame' = TokenLocals(tokens, Len(tokens) + 1)
    /\ pc' = "done"

\* the loop over the tokens goes on with the token at place k
GoTo(tokens, k) ==
    /\ frame' = TokenLocals(tokens, k)
    /\ pc' = IF k > Len(tokens) THEN "done" ELSE "token"

CollectorVars == <<variant, input, output, IdleVars>>

\* lines 38-53
FS_Enter ==
    /\ variant = "fetch_and_store_all_historical_prices"
    /\ pc = "call"
    /\ trace' = <<Event("get_tokens", "", 0, 0, <<>>, FALSE)>>
    /\ GoTo(get_tokens, 1)
    /\ UNCHANGED <<CollectorVars, store, session>>

\* line 67
MoreBatches(current_start) == current_start < input.end_date

\* lines 67-96 and 109-112: one batch of the token: the request returns the
\* prices of the batch (here none, or the price of its first day) or raises,
\* and then the token is given up
FS_Batch ==
    /\ variant = "fetch_and_store_all_historical_prices"
    /\ pc = "token"
    /\ MoreBatches(frame.current_start)
    /\ LET token_address == frame.tokens[frame.k]
           current_start == frame.current_start
           current_end == Min(current_start + (MAX_DAYS_PER_REQUEST - 1),
                              input.end_date)
       IN  \E result \in {"none", "prices", "raises"} :
               LET batch_prices == IF result = "prices"
                                   THEN <<PriceOn(current_start)>> ELSE <<>>
               IN  /\ trace' = Append(trace,
                          Event("get_token_prices", token_address, current_start,
                                current_end, batch_prices, result = "raises"))
                   /\ IF result = "raises"
                      THEN GoTo(frame.tokens, frame.k + 1)
                      ELSE /\ frame' = [frame EXCEPT
                                  !.all_prices = frame.all_prices \o batch_prices,
                                  !.current_start = current_end + 1,
                                  !.batch_num = frame.batch_num + 1]
                           /\ pc' = "token"
    /\ UNCHANGED <<CollectorVars, store, session>>

\* lines 98-107 and 109-112: the token's prices are stored, if there are
\* any; store_prices returns, or raises and the token is given up
FS_Store ==
    /\ variant = "fetch_and_store_all_historical_prices"
    /\ pc = "token"
    /\ ~MoreBatches(frame.current_start)
    /\ IF frame.all_prices # <<>>
       THEN \E fault \in Faults :
                LET token_address == frame.tokens[frame.k]
                    call == store_prices(token_address, frame.all_prices, fault)
                IN  /\ trace' = Append(trace,
                           Event("store_prices", token_address, 0, 0,
                                 frame.all_prices, call.output.kind = "raised"))
                    /\ store' = call.store
                    /\ session' = call.session
       ELSE UNCHANGED <<trace, store, session>>
    /\ GoTo(frame.tokens, frame.k + 1)
    /\ UNCHANGED CollectorVars

InitCollector ==
    /\ variant = "fetch_and_store_all_historical_prices"
    /\ pc = "call"
    /\ input \in [kind : {"args"}, start_date : {0}, end_date : 1 .. MaxEnd]
    /\ output = None
    /\ Idle
    /\ store \in [contracts : ContractTables, prices : {{}}]
    /\ session = store
    /\ trace = <<>>
    /\ frame = None

NextCollector == FS_Enter \/ FS_Batch \/ FS_Store

SpecCollector == InitCollector /\ [][NextCollector]_vars

\* the places in the trace of the calls of a kind that name the token
CallsOf(kind, t) ==
    {j \in DOMAIN trace : trace[j].kind = kind /\ trace[j].address = t}

\* no request of the token raised
Completed(t) == \A j \in CallsOf("get_token_prices", t) : ~trace[j].raised

\* the requests of the token other than the first
Later(t) ==
    {j \in CallsOf("get_token_prices", t) :
        \E k \in CallsOf("get_token_prices", t) : k < j}

\* C25: when the call is over, the requests made for a token (none of which
\* raised) form a chain of batches: the first starts at start_date, each ends
\* at min(start + 364, end_date), each next one starts the day after the end
\* of the one before, and every day from start_date through end_date lies in
\* exactly one batch.
C25_BatchesCoverRange ==
    pc = "done" =>
        \A t \in Elements(frame.tokens) :
            Completed(t) =>
                LET R == CallsOf("get_token_prices", t)
                IN  /\ \A j \in R \ Later(t) : trace[j].start = input.start_date
                    /\ \A j \in R :
                           /\ trace[j].end = Min(trace[j].start + 364, input.end_date)
                           /\ trace[j].end <= input.end_date
                    /\ \A j \in Later(t) :
                           /\ trace[j - 1].kind = "get_token_prices"
                           /\ trace[j].start = trace[j - 1].end + 1
                    /\ \A d \in input.start_date .. input.end_date :
                           Cardinality({j \in R : trace[j].start <= d
                                                    /\ d <= trace[j].end}) = 1

RECURSIVE Gathered(_, _)
\* the prices the requests of the token returned, up to place j of the trace
Gathered(t, j) ==
    IF j = 0 THEN <<>>
    ELSE IF j \in CallsOf("get_token_prices", t) THEN Gathered(t, j - 1) \o trace[j].prices
    ELSE Gathered(t, j - 1)

\* C26: when the call is over, the token list was read once, the tokens were
\* processed in its order, and for each token store_prices was called once,
\* after its requests and with all the prices they returned in order, if any
\* price was returned, and not at all otherwise; with no token there is no
\* request and no store_prices call.
C26_OneStorePerToken ==
    pc = "done" =>
        /\ Cardinality({j \in DOMAIN trace : trace[j].kind = "get_tokens"}) = 1
        /\ frame.tokens = <<>> => Len(trace) = 1
        /\ \A j, k \in DOMAIN trace :
               j < k /\ trace[j].address # "" /\ trace[j].address # trace[k].address
                   => FirstAt(frame.tokens, trace[j].address)
                          < FirstAt(frame.tokens, trace[k].address)
        /\ \A t \in Elements(frame.tokens) :
               LET stores == CallsOf("store_prices", t)
                   fetched == Gathered(t, Len(trace))
               IN  IF fetched = <<>> THEN stores = {}
                   ELSE /\ Cardinality(stores) = 1
                        /\ \A j \in stores :
                               /\ trace[j].prices = fetched
                               /\ \A k \in CallsOf("get_token_prices", t) : k < j


\* a request or the storing of the token raised
Failed(t) ==
    \E j \in CallsOf("get_token_prices", t) \cup CallsOf("store_prices", t) :
        trace[j].raised

\* C33: an exception raised while the prices of a token are fetched or
\* stored does not leave the call and does not keep the tokens after it from
\* being processed: the call goes on to its end, where every token of the
\* list has had its requests; for a token that failed no price is stored,
\* the prices its earlier batches returned included.
C33_FailedTokenIsSkipped ==
    /\ variant = "fetch_and_store_all_historical_prices"
           => pc \in {"call", "token", "done"} /\ output = None
    /\ pc \in {"call", "token"} => ENABLED NextCollector
    /\ pc = "done" =>
           \A t \in Elements(frame.tokens) :
               /\ CallsOf("get_token_prices", t) # {}
               /\ Failed(t) => \A r \in store.prices : r.token_address # t

C33_Witness ==
    /\ pc = "done"
    /\ Len(frame.tokens) = 2
    /\ Gathered(frame.tokens[1], Len(trace)) # <<>>
    /\ ~Completed(frame.tokens[1])
    /\ \E j \in CallsOf("store_prices", frame.tokens[2]) : ~trace[j].raised
    /\ store.prices # {}

----------------------------------------------------------------------------
(* The workflow: run_backtest of scripts/backtest.py, which is handed the   *)
(* strategy module, and of backtesting/backtesting.py, which calls its own  *)
(* backtest_strategy.  A frame is given by its number of rows; frame holds  *)
(* the locals and trace the steps called, in order.  One step and the       *)
(* test after it are one action.                                            *)

Workflows == {"scripts.run_backtest", "backtesting.run_backtest"}

\* the rows of the frames the steps return
MaxFrame == 2

Steps == <<"clean_data", "calculate_indicators", "backtest_strategy",
           "calculate_performance_metrics", "plot_backtest_results">>

\* what a step does: it returns a frame of some rows, or raises
Outcomes == [kind : {"returned"}, rows : 0 .. MaxFrame]
                \cup {[kind |-> "raised", rows |-> 0]}

ReturnedNone == [kind |-> "returned", value |-> "None"]

\* a bug the tests could have: an empty frame goes on to the next step
empty_Never(rows) == FALSE

\* DataFrame.empty
empty(rows) == rows = 0

\* the step raises and run_backtest with it
Propagates(step) ==
    /\ trace' = Append(trace, step)
    /\ pc' = "raised"
    /\ output' = Raised("Exception")
    /\ UNCHANGED frame

\* return None
Exits ==
    /\ pc' = "returned"
    /\ output' = ReturnedNone

WorkflowVars == <<variant, input, IdleVars, store, session>>

\* scripts/backtest.py lines 77-80, backtesting.py lines 223-227
RB_Clean ==
    /\ variant \in Workflows
    /\ pc = "call"
    /\ \E done \in Outcomes :
           IF done.kind = "raised" THEN Propagates(Steps[1])
           ELSE /\ trace' = Append(trace, Steps[1])
                /\ frame' = [frame EXCEPT !.df_cleaned = done.rows]
                /\ IF empty(done.rows) THEN Exits
                   ELSE pc' = "cleaned" /\ UNCHANGED output
    /\ UNCHANGED WorkflowVars

\* scripts/backtest.py line 84, backtesting.py line 231
RB_Indicators ==
    /\ variant \in Workflows
    /\ pc = "cleaned"
    /\ \E done \in {o \in Outcomes : o.kind = "returned" => o.rows = frame.df_cleaned} :
           IF done.kind = "raised" THEN Propagates(Steps[2])
           ELSE /\ trace' = Append(trace, Steps[2])
                /\ pc' = "indicators"
                /\ UNCHANGED <<frame, output>>
    /\ UNCHANGED WorkflowVars

\* scripts/backtest.py lines 88-99, backtesting.py lines 235-243
RB_Strategy ==
    /\ variant \in Workflows
    /\ pc = "indicators"
    /\ IF variant = "scripts.run_backtest" /\ ~input.has_backtest_strategy
       THEN Exits /\ UNCHANGED <<trace, frame>>
       ELSE \E done \in Outcomes :
                IF done.kind = "raised" THEN Propagates(Steps[3])
                ELSE /\ trace' = Append(trace, Steps[3])
                     /\ frame' = [frame EXCEPT !.portfolio_df = done.rows]
                     /\ IF empty(done.rows) THEN Exits
                        ELSE pc' = "strategy" /\ UNCHANGED output
    /\ UNCHANGED WorkflowVars

\* scripts/backtest.py lines 104-108, where METRICS_DIR / metrics_filename
\* raises TypeError for the default metrics_filename = None before the
\* analyzer is called; backtesting.py line 247
RB_Metrics ==
    /\ variant \in Workflows
    /\ pc = "strategy"
    /\ IF variant = "scripts.run_backtest" /\ input.metrics_filename = "None"
       THEN /\ pc' = "raised"
            /\ output' = Raised("TypeError")
            /\ UNCHANGED <<trace, frame>>
       ELSE \E done \in {o \in Outcomes : o.rows = 0} :
                IF done.kind = "raised" THEN Propagates(Steps[4])
                ELSE /\ trace' = Append(trace, Steps[4])
                     /\ pc' = "metrics"
                     /\ UNCHANGED <<frame, output>>
    /\ UNCHANGED WorkflowVars

\* scripts/backtest.py lines 112-123, backtesting.py lines 251-260
RB_Plot ==
    /\ variant \in Workflows
    /\ pc = "metrics"
    /\ \E done \in {o \in Outcomes : o.rows = 0} :
           IF done.kind = "raised" THEN Propagates(Steps[5])
           ELSE /\ trace' = Append(trace, Steps[5])
                /\ pc' = "returned"
                /\ output' = [kind |-> "returned", value |-> "result"]
                /\ UNCHANGED frame
    /\ UNCHANGED WorkflowVars

InitWorkflow ==
    /\ variant \in Workflows
    /\ pc = "call"
    /\ input \in [kind : {"args"}, has_backtest_strategy : BOOLEAN,
                  metrics_filename : {"None", "metrics.json"}]
    /\ variant = "backtesting.run_backtest"
           => input.has_backtest_strategy /\ input.metrics_filename = "None"
    /\ output = None
    /\ Idle
    /\ store = EmptyStore
    /\ session = EmptyStore
    /\ trace = <<>>
    /\ frame = [kind |-> "locals", df_cleaned |-> -1, portfolio_df |-> -1]

NextWorkflow == RB_Clean \/ RB_Indicators \/ RB_Strategy \/ RB_Metrics \/ RB_Plot

SpecWorkflow == InitWorkflow /\ [][NextWorkflow]_vars

\* the step was called
Called(step) == \E k \in DOMAIN trace : trace[k] = step

\* C35: the steps run in the order clean, indicators, strategy, metrics,
\* plot, each at most once and none before the one it follows; the run
\* returns no result, with neither the analyzer nor the plotter called, when
\* cleaning yields no data, when the strategy module has no
\* backtest_strategy, or when the strategy returns an empty series; a result
\* is returned only after all five steps.
C35_StepsInOrder ==
    variant \in Workflows =>
        /\ Len(trace) <= Len(Steps)
        /\ \A k \in DOMAIN trace : trace[k] = Steps[k]
        /\ frame.df_cleaned = 0 \/ frame.portfolio_df = 0
               => /\ pc = "returned"
                  /\ output = ReturnedNone
                  /\ ~Called("calculate_performance_metrics")
                  /\ ~Called("plot_backtest_results")
        /\ ~input.has_backtest_strategy
               => /\ ~Called("backtest_strategy")
                  /\ ~Called("calculate_performance_metrics")
                  /\ ~Called("plot_backtest_results")
                  /\ pc = "returned" => output = ReturnedNone
        /\ output = ReturnedNone =>
               \/ frame.df_cleaned = 0 /\ trace = SubSeq(Steps, 1, 1)
               \/ frame.portfolio_df = 0 /\ trace = SubSeq(Steps, 1, 3)
               \/ ~input.has_backtest_strategy /\ trace = SubSeq(Steps, 1, 2)
        /\ output.kind = "returned" /\ output # ReturnedNone => trace = Steps

C35_Witness ==
    /\ variant = "scripts.run_backtest"
    /\ output = ReturnedNone
    /\ trace = SubSeq(Steps, 1, 3)
    /\ frame.df_cleaned = MaxFrame

----------------------------------------------------------------------------
(* The slippage model on its own: slippage.slippage_cost(trade_value,       *)
(* pool_liquidity), trade_value in units of 1/S and pool_liquidity in whole *)
(* units, so that the trade sizes around every tier bound occur.            *)

MaxTrade == 510

PoolsGiven == {-1, 0, 1, 2}

SlippageCost ==
    /\ variant = "slippage_cost"
    /\ pc = "call"
    /\ output' = [kind |-> "cost",
                  value |-> slippage_cost(input.trade_value, input.pool_liquidity)]
    /\ pc' = "returned"
    /\ UNCHANGED <<variant, input, IdleVars, ingestion>>

InitSlippage ==
    /\ variant = "slippage_cost"
    /\ pc = "call"
    /\ input \in [kind : {"trade"}, trade_value : -1 .. MaxTrade,
                  pool_liquidity : PoolsGiven]
    /\ output = None
    /\ Idle
    /\ NoIngestion

NextSlippage == SlippageCost

SpecSlippage == InitSlippage /\ [][NextSlippage]_vars

\* one basis point
Bp == S \div 10000

\* C28: slippage_cost returns 0 when pool_liquidity <= 0, and otherwise 1bp,
\* 5bp, 15bp or 30bp as trade_value / pool_liquidity is below 0.1%, below 1%,
\* below 5%, or at least 5%.
C28_SlippageTiers ==
    pc = "returned" =>
        LET x == input.trade_value
            L == input.pool_liquidity * S
        IN  output.value =
                IF L <= 0 THEN 0
                ELSE IF 1000 * x < L THEN Bp
                ELSE IF 100 * x < L THEN 5 * Bp
                ELSE IF 100 * x < 5 * L THEN 15 * Bp
                ELSE 30 * Bp

C28_Witness ==
    /\ variant = "slippage_cost"
    /\ pc = "returned"
    /\ input.pool_liquidity = 2
    /\ input.trade_value = 200
    /\ output.value = 15 * Bp

\* C29: for every pool liquidity L and trade sizes 0 <= x <= y,
\* slippage_cost(x, L) <= slippage_cost(y, L), and the cost never exceeds the
\* cap of 50bp.
C29_SlippageMonotoneAndCapped ==
    pc = "returned" =>
        /\ output.value <= 50 * Bp
        /\ \A x \in 0 .. input.trade_value :
               slippage_cost(x, input.pool_liquidity) <= output.value

C29_Witness ==
    /\ variant = "slippage_cost"
    /\ pc = "returned"
    /\ input.pool_liquidity = 1
    /\ input.trade_value = MaxTrade
    /\ output.value = 30 * Bp
    /\ slippage_cost(0, input.pool_liquidity) = Bp

====
